---- MODULE Spec2Model ----
(***************************************************************************)
(* Model of the openclaw-skills-explorer dashboard core:                   *)
(*   - useSkillsData (hooks/useSkillsData): the asynchronous ingestion     *)
(*     pipeline load() with its cancellation flag, the four pieces of hook *)
(*     state data / loading / error / progress, and the queries whose rows *)
(*     the published view-model is built from;                             *)
(*   - App: the screen it renders, its tabs and its author filter;         *)
(*   - BrowseSection (sections/BrowseSection): the in-memory filter, sort  *)
(*     and pagination over data.browseSkills;                              *)
(*   - FindingsModal: the grouping of one skill's findings;                *)
(*   - SkillCardCarousel: its pages of cards.                              *)
(* Strings that the code inspects character by character are sequences of  *)
(* UTF-16 code units (integers); null is the record Null.                  *)
(***************************************************************************)
EXTENDS Integers, Sequences, FiniteSets, TLC

\* JavaScript null / a not-yet-published piece of state.
Null == [isNull |-> TRUE]

\* A JavaScript string held in hook state (progress text, error text).
Str(s) == [text |-> s]

----------------------------------------------------------------------------
(* useSkillsData: environment inputs                                        *)

\* The three blobs fetched by load().
BlobNames == {"skills", "findings", "authors"}
Mandatory == {"skills", "findings"}

\* What a fetch() promise can do: stay pending, reject (network failure), or
\* resolve with a Response that has an ok flag and a body.  The body either
\* is a Parquet file the engine can register or is not (an HTML error page,
\* a truncated download).
FetchPending == [st |-> "pending"]
FetchRejected == [st |-> "rejected"]
Response(ok, body) == [st |-> "resp", ok |-> ok, body |-> body]
FetchOutcomes ==
  {FetchRejected} \cup {Response(ok, body) : ok \in BOOLEAN, body \in {"parquet", "junk"}}

\* Error objects the engine, the network layer or a query can throw.
Errs ==
  { [name |-> "Error", message |-> ""],
    [name |-> "TypeError", message |-> "Failed to fetch"] }

\* String(e) for an Error object: its name, followed by the message if any.
ErrToString(e) ==
  IF e.message = "" THEN e.name ELSE e.name \o ": " \o e.message

\* e.message || String(e)
ErrText(e) == IF e.message # "" THEN e.message ELSE ErrToString(e)

\* The ten aggregation queries of the gather, in array order.
NumQueries == 10
Queries == 1..NumQueries
QueryField ==
  <<"stats", "monthly", "categories", "riskLevels", "authors", "riskiest",
    "findingsBySev", "findingsByRule", "browseSkills", "findingsBySkill">>

----------------------------------------------------------------------------
VARIABLES
  \* hook state of useSkillsData
  data, loading, error, progress,
  \* the effect closure: cancellation flag, position of load(), locals
  cancelled, pc, fetches, registered, authorProfiles, qs,
  \* history of the run (not read by the program)
  setDataCalls, setErrorCalls, cancelledAt, failedAt,
  \* BrowseSection: data.browseSkills, the authorFilter prop, the state
  \* hooks, the two memoised lists, the record of a repeated sort and the
  \* page index before the last event (history)
  browseSkills, authorFilter, query, catFilter, riskFilter, sortKey, sortDir,
  page, filtered, sorted, resorted, pageBefore,
  \* data.findingsBySkill, the skill whose findings modal is open, and the
  \* groups FindingsModal computed for it
  findingsBySkill, modal, groups,
  \* the skills relation and the rows of the riskiest query
  skills, riskiest,
  \* the findings relation, the rows of the findingsBySev, findingsByRule and
  \* allFindings queries as load() holds them once each has resolved
  findings, findingsBySev, findingsByRule, allFindings,
  \* App: the active tab, and the author of the last event if that event
  \* was a click on an author (history)
  tab, clicked,
  \* SkillCardCarousel: the skills prop, the two state hooks, the carousel
  \* engine (null until mounted) with its selected snap, and the effects
  \* scheduled by the last render
  carouselSkills, carouselPage, selectedIndex, emblaApi, snap, effects

hookVars == <<data, loading, error, progress>>
loadVars == <<cancelled, pc, fetches, registered, authorProfiles, qs>>
histVars == <<setDataCalls, setErrorCalls, cancelledAt, failedAt>>
browseVars ==
  <<browseSkills, authorFilter, query, catFilter, riskFilter, sortKey, sortDir,
    page, filtered, sorted, resorted, pageBefore>>
modalVars == <<findingsBySkill, modal, groups>>
sqlVars == <<skills, riskiest, findings, findingsBySev, findingsByRule, allFindings>>
carouselVars == <<carouselSkills, carouselPage, selectedIndex, emblaApi, snap, effects>>
appVars == <<tab, clicked>>
sectionVars == <<browseVars, modalVars, sqlVars, appVars, carouselVars>>
vars == <<hookVars, loadVars, histVars, sectionVars>>

----------------------------------------------------------------------------
(* useSkillsData: pure helpers of load()                                    *)

\* fetch(skills|findings).then(r => r.arrayBuffer()): the body of whatever
\* Response arrived; r.ok is not inspected.
MandatoryBuf(o) == o.body

\* Mutant: authors chain without the r.ok test.
AuthorsBuf_noOkTest(o) == IF o.st = "resp" THEN o.body ELSE "null"

\* fetch(authors).then(r => r.ok ? r.arrayBuffer() : null).catch(() => null)
AuthorsBuf(o) == IF o.st = "resp" /\ o.ok THEN o.body ELSE "null"

\* The element of the fetch Promise.all that rejects it: only a mandatory
\* chain can reject, the authors chain ends in a catch.
ChainRejects(name, o) == name \in Mandatory /\ o.st = "rejected"

\* The fetch Promise.all is fulfilled once no chain is pending.
FetchesFulfilled(f) == \A n \in BlobNames : f[n].st \in {"resp", "rejected"}

\* insertParquet can only succeed on a buffer that holds a Parquet file.
Registrable(buf) == buf = "parquet"

\* Mutant: Promise.race-like gather: resumes as soon as one query has resolved.
GatherFulfilled_any(q) == \E i \in Queries : q[i] = "ok"

\* Mutant: the gather does not wait for the last query of the array.
GatherFulfilled_exceptLast(q) == \A i \in Queries \ {NumQueries} : q[i] = "ok"

\* The query Promise.all is fulfilled once every query has resolved.
GatherFulfilled(q) == \A i \in Queries : q[i] = "ok"

\* Mutant: Promise.allSettled-like gather: a rejected query does not reject it.
GatherRejected_never(q) == FALSE

\* The query Promise.all is rejected as soon as one query has rejected.
GatherRejected(q) == \E i \in Queries : q[i] = "failed"

\* The await at which a fetch chain's rejection surfaces, for the history.
FetchStep ==
  [n \in BlobNames |->
     IF n = "skills" THEN "fetchSkills"
     ELSE IF n = "findings" THEN "fetchFindings" ELSE "fetchAuthors"]

\* Mutant: catch block that reports whether or not the run was cancelled.
CatchReports_always(c) == TRUE

\* if (!cancelled) in the catch block.
CatchReports(c) == ~c

\* The row set query i contributes to the view-model; st tells whether the
\* query had resolved when the value was read.
Result(q, i) == [query |-> i, st |-> q[i]]

\* The object passed to setData.
ViewModel(q, ap) ==
  [ stats           |-> Result(q, 1),
    authorProfiles  |-> ap,
    monthly         |-> Result(q, 2),
    categories      |-> Result(q, 3),
    riskLevels      |-> Result(q, 4),
    authors         |-> Result(q, 5),
    riskiest        |-> Result(q, 6),
    findingsBySev   |-> Result(q, 7),
    findingsByRule  |-> Result(q, 8),
    browseSkills    |-> Result(q, 9),
    findingsBySkill |-> Result(q, 10) ]

----------------------------------------------------------------------------
(* useSkillsData: initial state and the steps of load()                     *)

\* useState(null) of the findings modal.
NoModal == <<-1>>

BrowseIdle ==
  /\ browseSkills = <<>>
  /\ query = <<>>
  /\ catFilter = <<>>
  /\ riskFilter = ""
  /\ sortKey = "date_added"
  /\ sortDir = "desc"
  /\ page = 0
  /\ filtered = <<>>
  /\ sorted = <<>>
  /\ resorted = <<>>
  /\ authorFilter = <<>>
  /\ pageBefore = 0
  /\ findingsBySkill = <<>>
  /\ modal = NoModal
  /\ groups = [raised |-> FALSE, list |-> <<>>]

\* The last event was not a click on an author.
NoClick == <<-1>>

\* No query of the findings relation has resolved.
AggregatesIdle ==
  /\ findings = {}
  /\ findingsBySev = <<>>
  /\ findingsByRule = <<>>
  /\ allFindings = <<>>

\* The carousel is not mounted.
CarouselIdle ==
  /\ carouselSkills = <<>>
  /\ carouselPage = 0
  /\ selectedIndex = 0
  /\ emblaApi = FALSE
  /\ snap = 0
  /\ effects = {}

Init ==
  /\ data = Null
  /\ loading = TRUE
  /\ error = Null
  /\ progress = Str("Initializing DuckDB...")
  /\ cancelled = FALSE
  /\ pc = "idle"
  /\ fetches = [n \in BlobNames |-> [st |-> "idle"]]
  /\ registered = {}
  /\ authorProfiles = "undeclared"
  /\ qs = [i \in Queries |-> "idle"]
  /\ setDataCalls = 0
  /\ setErrorCalls = 0
  /\ cancelledAt = "never"
  /\ failedAt = "none"
  /\ BrowseIdle
  /\ skills = {}
  /\ riskiest = <<>>
  /\ AggregatesIdle
  /\ tab = "overview"
  /\ clicked = NoClick
  /\ CarouselIdle

\* Mutant: catch block that forgets setLoading(false).
Catch_keepsLoading(e, step) ==
  /\ IF CatchReports(cancelled)
       THEN /\ error' = Str(ErrText(e))
            /\ setErrorCalls' = setErrorCalls + 1
       ELSE UNCHANGED <<error, setErrorCalls>>
  /\ UNCHANGED loading
  /\ pc' = "done"
  /\ failedAt' = step
  /\ UNCHANGED <<data, setDataCalls>>

\* Mutant: catch block that ends the loading state without a message.
Catch_noMessage(e, step) ==
  /\ IF CatchReports(cancelled)
       THEN /\ loading' = FALSE
            /\ UNCHANGED <<error, setErrorCalls>>
       ELSE UNCHANGED <<error, loading, setErrorCalls>>
  /\ pc' = "done"
  /\ failedAt' = step
  /\ UNCHANGED <<data, setDataCalls>>

\* catch (e) { if (!cancelled) { setError(...); setLoading(false) } }
Catch(e, step) ==
  /\ IF CatchReports(cancelled)
       THEN /\ error' = Str(ErrText(e))
            /\ loading' = FALSE
            /\ setErrorCalls' = setErrorCalls + 1
       ELSE UNCHANGED <<error, loading, setErrorCalls>>
  /\ pc' = "done"
  /\ failedAt' = step
  /\ UNCHANGED <<data, setDataCalls>>

\* The effect runs: load() is called and executes up to its first await.
LoadStart ==
  /\ pc = "idle"
  /\ progress' = Str("Initializing...")
  /\ pc' = "init"
  /\ UNCHANGED <<data, loading, error, cancelled, fetches, registered, authorProfiles, qs,
                 histVars, sectionVars>>

\* The effect cleanup: return () => { cancelled = true }
Cleanup ==
  /\ pc # "idle"
  /\ ~cancelled
  /\ cancelled' = TRUE
  /\ cancelledAt' = pc
  /\ UNCHANGED <<hookVars, pc, fetches, registered, authorProfiles, qs,
                 setDataCalls, setErrorCalls, failedAt, sectionVars>>

\* initializeDuckDb resolves: no cancellation check, the three fetches start.
InitResolve ==
  /\ pc = "init"
  /\ progress' = Str("Fetching skills data...")
  /\ fetches' = [n \in BlobNames |-> FetchPending]
  /\ pc' = "fetch"
  /\ UNCHANGED <<data, loading, error, cancelled, registered, authorProfiles, qs,
                 histVars, sectionVars>>

InitReject ==
  /\ pc = "init"
  /\ \E e \in Errs : Catch(e, "init")
  /\ UNCHANGED <<progress, cancelled, fetches, registered, authorProfiles, qs,
                 cancelledAt, sectionVars>>

\* One of the three fetch chains settles.  The first rejection of a mandatory
\* chain rejects the Promise.all and load() resumes in its catch block; the
\* last fulfilment resumes load() after the await.  A chain that settles
\* after the Promise.all has rejected runs no code of load().
FetchSettle(name, o) ==
  /\ pc = "fetch"
  /\ fetches[name] = FetchPending
  /\ fetches' = [fetches EXCEPT ![name] = o]
  /\ IF ChainRejects(name, o)
       THEN /\ \E e \in Errs : Catch(e, FetchStep[name])
            /\ UNCHANGED progress
       ELSE IF FetchesFulfilled(fetches')
         THEN /\ IF cancelled
                   THEN pc' = "done" /\ UNCHANGED progress
                   ELSE /\ progress' = Str("Loading skills...")
                        /\ pc' = "insertSkills"
              /\ UNCHANGED <<data, loading, error, setDataCalls, setErrorCalls, failedAt>>
         ELSE UNCHANGED <<hookVars, pc, setDataCalls, setErrorCalls, failedAt>>
  /\ UNCHANGED <<cancelled, registered, authorProfiles, qs, cancelledAt, sectionVars>>

\* Mutant: the first query is issued and awaited before the second is.
StartGather_oneByOne ==
  IF cancelled
    THEN pc' = "done" /\ UNCHANGED <<progress, qs>>
    ELSE /\ progress' = Str("Running analytics...")
         /\ qs' = [i \in Queries |-> IF i = 1 THEN "pending" ELSE "idle"]
         /\ pc' = "gather"

\* if (cancelled) return; setProgress("Running analytics..."); the ten
\* queries are issued.
StartGather ==
  IF cancelled
    THEN pc' = "done" /\ UNCHANGED <<progress, qs>>
    ELSE /\ progress' = Str("Running analytics...")
         /\ qs' = [i \in Queries |-> "pending"]
         /\ pc' = "gather"

\* Mutant: a registration that resolves without creating the relation.
Register_lost(name) == registered' = registered

\* insertParquet(db, file, name) resolves: the relation exists under name.
Register(name) == registered' = registered \cup {name}

InsertSkillsResolve ==
  /\ pc = "insertSkills"
  /\ Registrable(MandatoryBuf(fetches["skills"]))
  /\ Register("skills")
  /\ pc' = "insertFindings"
  /\ UNCHANGED <<hookVars, cancelled, fetches, authorProfiles, qs,
                 histVars, sectionVars>>

InsertSkillsReject ==
  /\ pc = "insertSkills"
  /\ \E e \in Errs : Catch(e, "insertSkills")
  /\ UNCHANGED <<progress, cancelled, fetches, registered, authorProfiles, qs,
                 cancelledAt, sectionVars>>

\* insertParquet(findings) resolves; let authorProfiles = {}; if (authorsBuf)
InsertFindingsResolve ==
  /\ pc = "insertFindings"
  /\ Registrable(MandatoryBuf(fetches["findings"]))
  /\ Register("findings")
  /\ authorProfiles' = "{}"
  /\ IF AuthorsBuf(fetches["authors"]) # "null"
       THEN pc' = "insertAuthors" /\ UNCHANGED <<progress, qs>>
       ELSE StartGather
  /\ UNCHANGED <<data, loading, error, cancelled, fetches, histVars, sectionVars>>

InsertFindingsReject ==
  /\ pc = "insertFindings"
  /\ \E e \in Errs : Catch(e, "insertFindings")
  /\ UNCHANGED <<progress, cancelled, fetches, registered, authorProfiles, qs,
                 cancelledAt, sectionVars>>

InsertAuthorsResolve ==
  /\ pc = "insertAuthors"
  /\ Registrable(AuthorsBuf(fetches["authors"]))
  /\ Register("author_profiles")
  /\ pc' = "queryAuthors"
  /\ UNCHANGED <<hookVars, cancelled, fetches, authorProfiles, qs,
                 histVars, sectionVars>>

InsertAuthorsReject ==
  /\ pc = "insertAuthors"
  /\ \E e \in Errs : Catch(e, "insertAuthors")
  /\ UNCHANGED <<progress, cancelled, fetches, registered, authorProfiles, qs,
                 cancelledAt, sectionVars>>

\* The author_profiles query resolves; rows.forEach fills the map.
QueryAuthorsResolve ==
  /\ pc = "queryAuthors"
  /\ authorProfiles' = "profiles"
  /\ StartGather
  /\ UNCHANGED <<data, loading, error, cancelled, fetches, registered, histVars, sectionVars>>

QueryAuthorsReject ==
  /\ pc = "queryAuthors"
  /\ \E e \in Errs : Catch(e, "queryAuthors")
  /\ UNCHANGED <<progress, cancelled, fetches, registered, authorProfiles, qs,
                 cancelledAt, sectionVars>>

\* Query i resolves.  When it is the last one the Promise.all is fulfilled
\* and load() resumes: if (cancelled) return; setData({...}); setLoading(false)
QueryResolve(i) ==
  /\ pc = "gather"
  /\ qs[i] = "pending"
  /\ qs' = [qs EXCEPT ![i] = "ok"]
  /\ IF GatherFulfilled(qs')
       THEN IF cancelled
              THEN /\ pc' = "done"
                   /\ UNCHANGED <<data, loading, setDataCalls>>
              ELSE /\ data' = ViewModel(qs', authorProfiles)
                   /\ setDataCalls' = setDataCalls + 1
                   /\ loading' = FALSE
                   /\ pc' = "done"
       ELSE UNCHANGED <<data, loading, setDataCalls, pc>>
  /\ UNCHANGED <<error, progress, cancelled, fetches, registered, authorProfiles,
                 setErrorCalls, cancelledAt, failedAt, sectionVars>>

\* Query i rejects: the Promise.all rejects at once and load() resumes in its
\* catch block, whatever the other queries have done.  Queries that settle
\* after that run no code of load().
QueryReject(i) ==
  /\ pc = "gather"
  /\ qs[i] = "pending"
  /\ qs' = [qs EXCEPT ![i] = "failed"]
  /\ IF GatherRejected(qs')
       THEN \E e \in Errs : Catch(e, "gather")
       ELSE UNCHANGED <<hookVars, pc, histVars>>
  /\ UNCHANGED <<progress, cancelled, fetches, registered, authorProfiles,
                 cancelledAt, sectionVars>>

Next ==
  \/ LoadStart
  \/ Cleanup
  \/ InitResolve
  \/ InitReject
  \/ \E n \in BlobNames, o \in FetchOutcomes : FetchSettle(n, o)
  \/ InsertSkillsResolve
  \/ InsertSkillsReject
  \/ InsertFindingsResolve
  \/ InsertFindingsReject
  \/ InsertAuthorsResolve
  \/ InsertAuthorsReject
  \/ QueryAuthorsResolve
  \/ QueryAuthorsReject
  \/ \E i \in Queries : QueryResolve(i)
  \/ \E i \in Queries : QueryReject(i)

Spec == Init /\ [][Next]_vars

TypeOK ==
  /\ loading \in BOOLEAN
  /\ cancelled \in BOOLEAN
  /\ pc \in {"idle", "init", "fetch", "insertSkills", "insertFindings",
             "insertAuthors", "queryAuthors", "gather", "done"}

\* What App renders under the hook state: if (loading) ...; if (error) ...;
\* if (!data) return null; otherwise the dashboard.
Screen ==
  IF loading THEN "LoadingScreen"
  ELSE IF error # Null THEN "ErrorScreen"
  ELSE IF data = Null THEN "null"
  ELSE "dashboard"

----------------------------------------------------------------------------
(* BrowseSection: strings, entries and the inputs of the browse model       *)

\* A null string field of a row.
NullStr == <<-1>>

\* x || "" on a string or null.
OrEmpty(x) == IF x = NullStr \/ x = <<>> THEN <<>> ELSE x

\* String.prototype.toLowerCase on the code units used here (A-Z -> a-z).
LowerUnit(c) == IF c >= 65 /\ c <= 90 THEN c + 32 ELSE c
ToLowerCase(str) == [i \in 1..Len(str) |-> LowerUnit(str[i])]

\* String.prototype.includes
Includes(str, sub) ==
  \E k \in 0..(Len(str) - Len(sub)) :
    \A i \in 1..Len(sub) : str[k + i] = sub[i]

\* a < b on strings: lexicographic order of the code units.
StrLess(a, b) ==
  \E k \in 1..(Len(b)) :
    /\ k <= Len(a) + 1
    /\ \A i \in 1..(k - 1) : a[i] = b[i]
    /\ (k = Len(a) + 1 \/ a[k] < b[k])

\* The date texts that occur in the catalog and new Date(s).getTime() of
\* each, in days since the epoch.  A text the engine's Date does not parse
\* gives an Invalid Date, whose time value is NaN.
NullDate == "null"
NaN == -1
GetTime(d) == IF d = "2024-01-01" THEN 19723 ELSE IF d = "2024-01-02" THEN 19724 ELSE NaN

\* x > y on numbers: false when either is NaN.
NumGreater(x, y) == x # NaN /\ y # NaN /\ x > y

\* The place of a date text in the order of the texts (ORDER BY on the
\* date_added column compares the texts).
DateTextRank(d) ==
  IF d = "2024-01-02" THEN 3
  ELSE IF d = "2024-01-01 10:00:00" THEN 2
  ELSE 1

\* A level that is null: the skill has no scan result.
NullLevel == "null"

\* Largest number of rows of data.browseSkills explored.
MaxEntries == 3

\* Rows of data.browseSkills as useSkillsData publishes them (counts already
\* coerced to numbers).  Paths are unique; display name and description may
\* be null; two rows share a category, an author up to case, a findings
\* count and a date.  One row has a date text that the database casts to a
\* timestamp but Date does not parse, one has no date, and one has no
\* level.
Row(path, author, display, desc, cat, level, count, date, files) ==
  [ skill_path |-> path, skill_author |-> author,
    skill_display_name |-> display, skill_description |-> desc,
    category |-> cat, level |-> level, findings |-> count,
    date_added |-> date, file_count |-> files, script_count |-> 0,
    md_count |-> files, folder_size_bytes |-> files * 1024 ]

EntryPool ==
  { Row(<<97, 47, 120>>, <<65, 108>>, <<88>>, NullStr,
        <<100, 101, 118>>, "HIGH", 3, "2024-01-02", 2),
    Row(<<98, 47, 121>>, <<97, 108>>, NullStr, <<65, 98>>,
        <<100, 101, 118>>, "CRITICAL", 1, "2024-01-02", 2),
    Row(<<99, 47, 122>>, <<66, 111>>, <<97, 98>>, <<>>,
        <<111, 112, 115>>, "UNKNOWN", 0, "2024-01-01 10:00:00", 1),
    Row(<<100, 47, 119>>, <<98, 111>>, NullStr, NullStr,
        NullStr, NullLevel, 0, NullDate, 0) }

\* ORDER BY date_added DESC NULLS LAST: the order in which the browse query
\* returns its rows.
RecencyOrdered(list) ==
  \A i \in 1..Len(list), j \in 1..Len(list) :
    i < j =>
      \/ list[j].date_added = NullDate
      \/ /\ list[i].date_added # NullDate
         /\ DateTextRank(list[i].date_added) >= DateTextRank(list[j].date_added)

\* Sequences of distinct rows of the pool.
Lists(n) ==
  {l \in [1..n -> EntryPool] : \A i \in 1..n, j \in 1..n : i # j => l[i] # l[j]}

Catalogs ==
  {l \in UNION {Lists(n) : n \in 0..MaxEntries} : RecencyOrdered(l)}

\* Texts typed into the search box.
SearchTexts == {<<>>, <<65>>, <<97, 108>>, <<47>>, <<122, 122>>}

\* The options of the risk select.
RiskOptions == {"CRITICAL", "HIGH", "MEDIUM", "LOW", "CLEAN", "UNKNOWN"}

\* The keys of COLS, the clickable column headers.
SortKeys ==
  {"skill_path", "skill_author", "category", "level", "findings", "date_added",
   "file_count", "script_count", "md_count", "folder_size_bytes"}

NumericKeys ==
  {"findings", "file_count", "script_count", "md_count", "folder_size_bytes"}

\* Mutant: a level missing from the table ranks before every level.
RISK_ORDER_missingFirst(level) ==
  IF level = "CRITICAL" THEN 0
  ELSE IF level = "HIGH" THEN 1
  ELSE IF level = "MEDIUM" THEN 2
  ELSE IF level = "LOW" THEN 3
  ELSE IF level = "CLEAN" THEN 4
  ELSE IF level = "UNKNOWN" THEN 5
  ELSE -9

\* RISK_ORDER[level] ?? 9
RISK_ORDER(level) ==
  IF level = "CRITICAL" THEN 0
  ELSE IF level = "HIGH" THEN 1
  ELSE IF level = "MEDIUM" THEN 2
  ELSE IF level = "LOW" THEN 3
  ELSE IF level = "CLEAN" THEN 4
  ELSE IF level = "UNKNOWN" THEN 5
  ELSE 9

----------------------------------------------------------------------------
(* BrowseSection: filtered and sorted                                       *)

\* Mutant: the search text is matched without being lower-cased.
Passes_rawQuery(r, qText, cat, risk) ==
  IF /\ qText # <<>>
     /\ ~ \/ Includes(ToLowerCase(OrEmpty(r.skill_path)), qText)
          \/ Includes(ToLowerCase(OrEmpty(r.skill_author)), qText)
          \/ Includes(ToLowerCase(OrEmpty(r.skill_display_name)), qText)
          \/ Includes(ToLowerCase(OrEmpty(r.skill_description)), qText)
    THEN FALSE
  ELSE IF cat # <<>> /\ r.category # cat THEN FALSE
  ELSE IF risk # "" /\ r.level # risk THEN FALSE
  ELSE TRUE

\* The callback of browseSkills.filter
Passes(r, qText, cat, risk) ==
  LET q == ToLowerCase(qText) IN
  IF /\ q # <<>>
     /\ ~ \/ Includes(ToLowerCase(OrEmpty(r.skill_path)), q)
          \/ Includes(ToLowerCase(OrEmpty(r.skill_author)), q)
          \/ Includes(ToLowerCase(OrEmpty(r.skill_display_name)), q)
          \/ Includes(ToLowerCase(OrEmpty(r.skill_description)), q)
    THEN FALSE
  ELSE IF cat # <<>> /\ r.category # cat THEN FALSE
  ELSE IF risk # "" /\ r.level # risk THEN FALSE
  ELSE TRUE

\* browseSkills.filter(...): the passing rows in their original order.
Filtered(list, qText, cat, risk) ==
  SelectSeq(list, LAMBDA r : Passes(r, qText, cat, risk))

\* av > bv for the values the comparator derives from rows a and b.
Greater(a, b, key) ==
  IF key = "date_added"
    THEN NumGreater(IF a[key] # NullDate THEN GetTime(a[key]) ELSE 0,
                    IF b[key] # NullDate THEN GetTime(b[key]) ELSE 0)
  ELSE IF key \in NumericKeys THEN a[key] > b[key]
  ELSE IF key = "level" THEN RISK_ORDER(a[key]) > RISK_ORDER(b[key])
  ELSE StrLess(ToLowerCase(OrEmpty(b[key])), ToLowerCase(OrEmpty(a[key])))

\* The sort comparator: it never returns 0.
Compare(a, b, key, dir) ==
  IF dir = "asc"
    THEN (IF Greater(a, b, key) THEN 1 ELSE -1)
    ELSE (IF Greater(b, a, key) THEN 1 ELSE -1)

\* The permutations of a list of distinct rows.
Orderings(list) ==
  {p \in [1..Len(list) -> {list[i] : i \in 1..Len(list)}] :
     \A i \in 1..Len(list), j \in 1..Len(list) : i # j => p[i] # p[j]}

\* One engine's result on a list of any length: a stable sort.  The rows
\* the comparator leaves undecided form classes; the classes follow each
\* other as the comparator orders them, and the rows of a class keep the
\* order they had in the list.
Before(a, b, key, dir) ==
  Compare(a, b, key, dir) < 0 /\ Compare(b, a, key, dir) > 0

Undecided(a, b, key, dir) == ~Before(a, b, key, dir) /\ ~Before(b, a, key, dir)

\* A row of the list that the comparator places behind no other.
Foremost(list, key, dir) ==
  list[CHOOSE i \in 1..Len(list) :
         \A j \in 1..Len(list) : ~Before(list[j], list[i], key, dir)]

RECURSIVE StableSort(_, _, _)
StableSort(list, key, dir) ==
  IF list = <<>> THEN <<>>
  ELSE LET m == Foremost(list, key, dir)
       IN SelectSeq(list, LAMBDA r : Undecided(m, r, key, dir))
            \o StableSort(SelectSeq(list, LAMBDA r : ~Undecided(m, r, key, dir)),
                          key, dir)

\* The comparator orders the rows of the list consistently: being left
\* undecided is transitive.  It is not when a NaN is among the values, which
\* is undecided against everything.
Consistent(list, key, dir) ==
  \A i \in 1..Len(list), j \in 1..Len(list) :
    (i < j /\ ~Undecided(list[i], list[j], key, dir)) =>
      \A k \in 1..Len(list) :
        Undecided(list[i], list[k], key, dir) => ~Undecided(list[k], list[j], key, dir)

\* [...list].sort(comparator).  Array.prototype.sort places x before y when
\* the comparator says so consistently (negative for (x, y), positive for
\* (y, x)).  For two rows on which the comparator answers -1 both ways the
\* engine's algorithm decides: every order of such rows is an outcome.
\* With a comparator that is not consistent the order is
\* implementation-defined: every order of the list is an outcome.
\* A list longer than MaxEntries has too many orders to enumerate; for it
\* the outcome of one engine, the stable sort, is taken.
SortOutcomes(list, key, dir) ==
  IF Len(list) > MaxEntries
    THEN {StableSort(list, key, dir)}
  ELSE IF ~Consistent(list, key, dir)
    THEN Orderings(list)
  ELSE
  {p \in Orderings(list) :
     \A i \in 1..Len(p), j \in 1..Len(p) :
       i < j => ~(Compare(p[j], p[i], key, dir) < 0 /\ Compare(p[i], p[j], key, dir) > 0)}

----------------------------------------------------------------------------
(* BrowseSection: state and event handlers                                  *)

\* The hook state the section is rendered under: ingestion is complete.
LoadReady ==
  /\ data = ViewModel([i \in Queries |-> "ok"], "{}")
  /\ loading = FALSE
  /\ error = Null
  /\ progress = Str("Running analytics...")
  /\ cancelled = FALSE
  /\ pc = "done"
  /\ fetches = [n \in BlobNames |->
                  IF n \in Mandatory THEN Response(TRUE, "parquet") ELSE FetchRejected]
  /\ registered = {"skills", "findings"}
  /\ authorProfiles = "{}"
  /\ qs = [i \in Queries |-> "ok"]
  /\ setDataCalls = 1
  /\ setErrorCalls = 0
  /\ cancelledAt = "never"
  /\ failedAt = "none"

\* A render: the useMemo values are recomputed from the new state.  The
\* record of an earlier second application of the sort is dropped.
Render ==
  /\ filtered' = Filtered(browseSkills', query', catFilter', riskFilter')
  /\ sorted' \in SortOutcomes(filtered', sortKey', sortDir')
  /\ resorted' = <<>>

InitBrowse ==
  /\ LoadReady
  /\ browseSkills \in Catalogs
  /\ query = <<>>
  /\ catFilter = <<>>
  /\ riskFilter = ""
  /\ sortKey = "date_added"
  /\ sortDir = "desc"
  /\ page = 0
  /\ filtered = Filtered(browseSkills, query, catFilter, riskFilter)
  /\ sorted \in SortOutcomes(filtered, sortKey, sortDir)
  /\ resorted = <<>>
  /\ authorFilter = <<>>
  /\ pageBefore = 0
  /\ findingsBySkill = <<>>
  /\ modal = NoModal
  /\ groups = [raised |-> FALSE, list |-> <<>>]
  /\ skills = {}
  /\ riskiest = <<>>
  /\ AggregatesIdle
  /\ tab = "browse"
  /\ clicked = NoClick
  /\ CarouselIdle

loadAll == <<hookVars, loadVars, histVars>>

\* onChange of the search box
SetQuery(text) ==
  /\ text # query
  /\ query' = text
  /\ page' = 0
  /\ UNCHANGED <<browseSkills, catFilter, riskFilter, sortKey, sortDir, loadAll, authorFilter, modalVars, sqlVars,
                 appVars, carouselVars>>
  /\ pageBefore' = page
  /\ Render

\* The categories offered by the select: catList.
CatList == {browseSkills[i].category : i \in 1..Len(browseSkills)} \ {NullStr, <<>>}

\* Mutant: a category change that keeps the page index.
SetCatFilter_keepsPage(c) ==
  /\ c \in CatList \cup {<<>>}
  /\ c # catFilter
  /\ catFilter' = c
  /\ UNCHANGED page
  /\ UNCHANGED <<browseSkills, query, riskFilter, sortKey, sortDir, loadAll,
                 authorFilter, modalVars, sqlVars,
                 appVars, carouselVars>>
  /\ pageBefore' = page
  /\ Render

\* onChange of the category select
SetCatFilter(c) ==
  /\ c \in CatList \cup {<<>>}
  /\ c # catFilter
  /\ catFilter' = c
  /\ page' = 0
  /\ UNCHANGED <<browseSkills, query, riskFilter, sortKey, sortDir, loadAll, authorFilter, modalVars, sqlVars,
                 appVars, carouselVars>>
  /\ pageBefore' = page
  /\ Render

\* onChange of the risk select
SetRiskFilter(r) ==
  /\ r # riskFilter
  /\ riskFilter' = r
  /\ page' = 0
  /\ UNCHANGED <<browseSkills, query, catFilter, sortKey, sortDir, loadAll, authorFilter, modalVars, sqlVars,
                 appVars, carouselVars>>
  /\ pageBefore' = page
  /\ Render

\* Mutant: a click on another key keeps the direction.
HandleSort_keepsDir(key) ==
  /\ IF key = sortKey
       THEN /\ sortDir' = (IF sortDir = "asc" THEN "desc" ELSE "asc")
            /\ UNCHANGED sortKey
       ELSE /\ sortKey' = key
            /\ UNCHANGED sortDir
  /\ page' = 0
  /\ UNCHANGED <<browseSkills, query, catFilter, riskFilter, loadAll, authorFilter, modalVars, sqlVars,
                 appVars, carouselVars>>
  /\ pageBefore' = page
  /\ Render

\* Mutant: the sort applied to data.browseSkills itself.
HandleSort_inPlace(key) ==
  /\ IF key = sortKey
       THEN /\ sortDir' = (IF sortDir = "asc" THEN "desc" ELSE "asc")
            /\ UNCHANGED sortKey
       ELSE /\ sortKey' = key
            /\ sortDir' = "asc"
  /\ page' = 0
  /\ browseSkills' \in SortOutcomes(browseSkills, sortKey', sortDir')
  /\ UNCHANGED <<query, catFilter, riskFilter, loadAll, authorFilter, modalVars, sqlVars,
                 appVars, carouselVars>>
  /\ pageBefore' = page
  /\ Render

\* handleSort(key)
HandleSort(key) ==
  /\ IF key = sortKey
       THEN /\ sortDir' = (IF sortDir = "asc" THEN "desc" ELSE "asc")
            /\ UNCHANGED sortKey
       ELSE /\ sortKey' = key
            /\ sortDir' = "asc"
  /\ page' = 0
  /\ UNCHANGED <<browseSkills, query, catFilter, riskFilter, loadAll, authorFilter, modalVars, sqlVars,
                 appVars, carouselVars>>
  /\ pageBefore' = page
  /\ Render

\* resetFilters(), offered while some filter is set
ResetFilters ==
  /\ query # <<>> \/ catFilter # <<>> \/ riskFilter # ""
  /\ query' = <<>>
  /\ catFilter' = <<>>
  /\ riskFilter' = ""
  /\ page' = 0
  /\ UNCHANGED <<browseSkills, sortKey, sortDir, loadAll, authorFilter, modalVars, sqlVars,
                 appVars, carouselVars>>
  /\ pageBefore' = page
  /\ Render

\* The browse sort applied to its own result with the same key and
\* direction; the result is kept in resorted.
SortAgain ==
  /\ sorted # <<>>
  /\ resorted = <<>>
  /\ resorted' \in SortOutcomes(sorted, sortKey, sortDir)
  /\ UNCHANGED <<browseSkills, query, catFilter, riskFilter, sortKey, sortDir,
                 page, filtered, sorted, pageBefore, loadAll, authorFilter, modalVars, sqlVars,
                 appVars, carouselVars>>

\* The risk options and column headers used in the browse model.  No row of
\* the pool has level MEDIUM, LOW or CLEAN, so one of them stands for the
\* three; file_count stands for the count columns that order the pool's rows
\* as it does.
BrowseRisks == {"", "CRITICAL", "HIGH", "LOW", "UNKNOWN"}
BrowseKeys ==
  {"skill_path", "skill_author", "category", "level", "findings", "date_added",
   "file_count"}

NextBrowse ==
  \/ \E text \in SearchTexts : SetQuery(text)
  \/ \E c \in CatList \cup {<<>>} : SetCatFilter(c)
  \/ \E r \in BrowseRisks : SetRiskFilter(r)
  \/ \E key \in BrowseKeys : HandleSort(key)
  \/ ResetFilters
  \/ SortAgain

SpecBrowse == InitBrowse /\ [][NextBrowse]_vars

----------------------------------------------------------------------------
(* BrowseSection: pagination                                                *)

PER_PAGE == 50

Min(a, b) == IF a < b THEN a ELSE b
Max(a, b) == IF a > b THEN a ELSE b

\* Math.ceil(sorted.length / PER_PAGE)
TotalPages(list) == (Len(list) + PER_PAGE - 1) \div PER_PAGE

\* Mutant: a slice that starts one row late.
Paged_lateStart(list, p) ==
  SubSeq(list, Min(p * PER_PAGE + 1, Len(list)) + 1, Min((p + 1) * PER_PAGE, Len(list)))

\* sorted.slice(page * PER_PAGE, (page + 1) * PER_PAGE): both ends are clamped
\* to the length.
Paged(list, p) ==
  SubSeq(list, Min(p * PER_PAGE, Len(list)) + 1, Min((p + 1) * PER_PAGE, Len(list)))

\* Largest number of pages the catalog of the pagination model fills.
MaxPages == 3

\* A catalog long enough for MaxPages pages.  Row i has a unique path; the
\* rows alternate between two authors and two categories, cycle through
\* three levels and findings counts, and are dated as the browse query
\* orders them (newest first, undated last).
Digits(i) == <<48 + ((i \div 100) % 10), 48 + ((i \div 10) % 10), 48 + (i % 10)>>

BigRow(i) ==
  Row(<<112, 47>> \o Digits(i),
      IF i % 2 = 0 THEN <<65, 108>> ELSE <<66, 111>>,
      NullStr, NullStr,
      IF i % 2 = 1 THEN <<100, 101, 118>> ELSE <<111, 112, 115>>,
      IF i % 3 = 0 THEN "CRITICAL" ELSE IF i % 3 = 1 THEN "HIGH" ELSE "UNKNOWN",
      i % 3,
      IF i <= PER_PAGE THEN "2024-01-02"
      ELSE IF i <= 2 * PER_PAGE THEN "2024-01-01" ELSE NullDate,
      i % 2)

BigCatalog(n) == [i \in 1..n |-> BigRow(i)]

\* The catalogs of the pagination model: one that fills a single page
\* exactly and one with a last page of one row.
BigCatalogs == {BigCatalog(PER_PAGE), BigCatalog((MaxPages - 1) * PER_PAGE + 1)}

\* Inputs of the pagination model.
PagingTexts == {<<>>, <<65>>, <<66, 111>>}
PagingRisks == {"", "CRITICAL", "UNKNOWN"}
PagingKeys == {"level", "findings", "date_added"}
AuthorFilters == {<<>>, <<65, 108>>}

\* BrowseSection mounted by App with the author filter of the moment:
\* useState(authorFilter || "").
InitPaging ==
  /\ LoadReady
  /\ browseSkills \in BigCatalogs
  /\ authorFilter \in AuthorFilters
  /\ query = authorFilter
  /\ catFilter = <<>>
  /\ riskFilter = ""
  /\ sortKey = "date_added"
  /\ sortDir = "desc"
  /\ page = 0
  /\ filtered = Filtered(browseSkills, query, catFilter, riskFilter)
  /\ sorted \in SortOutcomes(filtered, sortKey, sortDir)
  /\ resorted = <<>>
  /\ pageBefore = 0
  /\ findingsBySkill = <<>>
  /\ modal = NoModal
  /\ groups = [raised |-> FALSE, list |-> <<>>]
  /\ skills = {}
  /\ riskiest = <<>>
  /\ AggregatesIdle
  /\ tab = "browse"
  /\ clicked = NoClick
  /\ CarouselIdle

\* What a click on a pagination button leaves alone.
pageKeeps ==
  <<browseSkills, authorFilter, query, catFilter, riskFilter, sortKey, sortDir,
    filtered, sorted, resorted, loadAll, modalVars, sqlVars,
                 appVars, carouselVars>>

\* The pagination bar is rendered when totalPages > 1.
\* "<<": setPage(0), disabled on page 0
PageFirst ==
  /\ TotalPages(sorted) > 1
  /\ page # 0
  /\ page' = 0
  /\ pageBefore' = page
  /\ UNCHANGED pageKeeps

\* "Prev": setPage(p => Math.max(0, p - 1)), disabled on page 0
PagePrev ==
  /\ TotalPages(sorted) > 1
  /\ page # 0
  /\ page' = Max(0, page - 1)
  /\ pageBefore' = page
  /\ UNCHANGED pageKeeps

\* Mutant: Next without the upper clamp.
PageNext_unclamped ==
  /\ TotalPages(sorted) > 1
  /\ page' = page + 1
  /\ page' <= MaxPages
  /\ pageBefore' = page
  /\ UNCHANGED pageKeeps

\* "Next": setPage(p => Math.min(totalPages - 1, p + 1)), disabled on the
\* last page
PageNext ==
  /\ TotalPages(sorted) > 1
  /\ ~(page >= TotalPages(sorted) - 1)
  /\ page' = Min(TotalPages(sorted) - 1, page + 1)
  /\ pageBefore' = page
  /\ UNCHANGED pageKeeps

\* ">>": setPage(totalPages - 1), disabled on the last page
PageLast ==
  /\ TotalPages(sorted) > 1
  /\ ~(page >= TotalPages(sorted) - 1)
  /\ page' = TotalPages(sorted) - 1
  /\ pageBefore' = page
  /\ UNCHANGED pageKeeps

\* filterByAuthor(row.skill_author), the author button of a displayed row
FilterByAuthor(author) ==
  /\ LET paged == Paged(sorted, page)
     IN author \in {paged[i].skill_author : i \in 1..Len(paged)}
  /\ query' = author
  /\ page' = 0
  /\ UNCHANGED <<browseSkills, catFilter, riskFilter, sortKey, sortDir, loadAll,
                 authorFilter, modalVars, sqlVars,
                 appVars, carouselVars>>
  /\ pageBefore' = page
  /\ Render

\* The effect on [authorFilter]: the parent passes another author filter.
AuthorFilterEffect(a) ==
  /\ a # authorFilter
  /\ authorFilter' = a
  /\ query' = a
  /\ page' = 0
  /\ UNCHANGED <<browseSkills, catFilter, riskFilter, sortKey, sortDir, loadAll,
                 modalVars, sqlVars,
                 appVars, carouselVars>>
  /\ pageBefore' = page
  /\ Render

NextPaging ==
  \/ \E text \in PagingTexts : SetQuery(text)
  \/ \E c \in CatList \cup {<<>>} : SetCatFilter(c)
  \/ \E r \in PagingRisks : SetRiskFilter(r)
  \/ \E key \in PagingKeys : HandleSort(key)
  \/ ResetFilters
  \/ \E a \in {<<65, 108>>, <<66, 111>>} : FilterByAuthor(a)
  \/ \E a \in AuthorFilters : AuthorFilterEffect(a)
  \/ PageFirst
  \/ PagePrev
  \/ PageNext
  \/ PageLast

SpecPaging == InitPaging /\ [][NextPaging]_vars

----------------------------------------------------------------------------
(* FindingsModal: grouping of a skill's findings                            *)

\* String(x): a rule id used as a property key or handed to localeCompare;
\* null becomes the text "null".
ToKey(x) == IF x = NullStr THEN <<110, 117, 108, 108>> ELSE x

SEV_ORDER == <<"CRITICAL", "HIGH", "MEDIUM", "LOW", "INFO">>

\* SEV_ORDER.indexOf(sev)
SevIndexOf(sev) ==
  IF \E i \in 1..Len(SEV_ORDER) : SEV_ORDER[i] = sev
    THEN (CHOOSE i \in 1..Len(SEV_ORDER) : SEV_ORDER[i] = sev) - 1
    ELSE -1

\* x.localeCompare(y) on texts of ASCII letters: alphabetical whatever the
\* case, then lower case before upper case.
LocaleCompare(x, y) ==
  IF x = y THEN 0
  ELSE IF ToLowerCase(x) # ToLowerCase(y)
    THEN (IF StrLess(ToLowerCase(x), ToLowerCase(y)) THEN -1 ELSE 1)
  ELSE (IF StrLess(y, x) THEN -1 ELSE 1)

\* Largest number of findings of one skill explored.
MaxFindings == 3

\* Rows of the findings relation for one skill.  Two share a rule, four a
\* severity, and one has no rule id.
Finding(rule, sev, line) == [rule_id |-> rule, severity |-> sev, line |-> line]

FindingPool ==
  { Finding(<<80, 73>>, "HIGH", 1),
    Finding(<<80, 73>>, "HIGH", 2),
    Finding(<<69, 88>>, "CRITICAL", 3),
    Finding(<<65, 66>>, "HIGH", 4),
    Finding(NullStr, "HIGH", 5),
    Finding(<<83, 67>>, "LOW", 6),
    Finding(<<67, 70>>, "CRITICAL", 7) }

\* ORDER BY skill_path, CASE severity ... END, line of the findings query.
SqlSeverityRank(sev) ==
  IF sev = "CRITICAL" THEN 0
  ELSE IF sev = "HIGH" THEN 1
  ELSE IF sev = "MEDIUM" THEN 2
  ELSE 3

FindingLists ==
  UNION {{l \in [1..n -> FindingPool] :
            \A i \in 1..n, j \in 1..n :
              i < j =>
                \/ SqlSeverityRank(l[i].severity) < SqlSeverityRank(l[j].severity)
                \/ /\ SqlSeverityRank(l[i].severity) = SqlSeverityRank(l[j].severity)
                   /\ l[i].line < l[j].line} : n \in 0..MaxFindings}

\* findingsBySkill?.[path] || []
FindingsOf(bySkill, path) ==
  IF path \in DOMAIN bySkill THEN bySkill[path] ELSE <<>>

\* The findings that create a key of map, in the order they create it.
FirstOfRule(fs) ==
  {i \in 1..Len(fs) :
     \A j \in 1..(i - 1) : ToKey(fs[j].rule_id) # ToKey(fs[i].rule_id)}

\* map[f.rule_id] once forEach is over: the rule id and severity of the
\* first finding under the key, and every finding under it in list order.
GroupAt(fs, i) ==
  [rule_id |-> fs[i].rule_id, severity |-> fs[i].severity,
   hits |-> SelectSeq(fs, LAMBDA f : ToKey(f.rule_id) = ToKey(fs[i].rule_id))]

\* Object.values(map): the groups in the order their keys were created.
ObjectValues(fs) ==
  LET firsts == FirstOfRule(fs)
      nth(k) == CHOOSE i \in firsts : Cardinality({j \in firsts : j <= i}) = k
  IN [k \in 1..Cardinality(firsts) |-> GroupAt(fs, nth(k))]

\* The comparator of the groups raises a TypeError when it reaches
\* a.rule_id.localeCompare with a.rule_id null.
GroupCompareRaises(a, b) ==
  SevIndexOf(a.severity) = SevIndexOf(b.severity) /\ a.rule_id = NullStr

\* The comparator's value when it does not raise.
GroupCompare(a, b) ==
  IF SevIndexOf(a.severity) # SevIndexOf(b.severity)
    THEN SevIndexOf(a.severity) - SevIndexOf(b.severity)
    ELSE LocaleCompare(a.rule_id, ToKey(b.rule_id))

\* The value of groups: the sorted list, or the exception of the comparator.
Raised == [raised |-> TRUE, list |-> <<>>]
Sorted(list) == [raised |-> FALSE, list |-> list]

\* Object.values(map).sort(comparator).  Which of (a, b) and (b, a) the
\* engine hands to the comparator is its own choice: when some order of two
\* groups makes the comparator raise, the sort may raise; it may also be
\* spared, and then it orders the groups by the answers it got, which treat
\* a null rule id as the text "null".
GroupOutcomes(fs) ==
  LET vals == ObjectValues(fs)
      key(g) == [rule_id |-> ToKey(g.rule_id), severity |-> g.severity]
      ordered == {p \in Orderings(vals) :
                    \A i \in 1..Len(p), j \in 1..Len(p) :
                      i < j => GroupCompare(key(p[i]), p[j]) <= 0}
      raises == \E i \in 1..Len(vals), j \in 1..Len(vals) :
                  i # j /\ GroupCompareRaises(vals[i], vals[j])
  IN {Sorted(p) : p \in ordered} \cup (IF raises THEN {Raised} ELSE {})

\* The skill of the findings model and its row in the catalog.
ModalPath == <<97, 47, 120>>
ModalRow == CHOOSE r \in EntryPool : r.skill_path = ModalPath

\* data.findingsBySkill as the reduce of useSkillsData builds it: a key for
\* every skill that has findings.
BySkill(path, fs) == IF fs = <<>> THEN <<>> ELSE (path :> fs)

InitFindings ==
  /\ LoadReady
  /\ browseSkills = <<ModalRow>>
  /\ authorFilter = <<>>
  /\ query = <<>>
  /\ catFilter = <<>>
  /\ riskFilter = ""
  /\ sortKey = "date_added"
  /\ sortDir = "desc"
  /\ page = 0
  /\ filtered = Filtered(browseSkills, query, catFilter, riskFilter)
  /\ sorted \in SortOutcomes(filtered, sortKey, sortDir)
  /\ resorted = <<>>
  /\ pageBefore = 0
  /\ findingsBySkill \in {BySkill(ModalPath, fs) : fs \in FindingLists}
  /\ modal = NoModal
  /\ groups = Sorted(<<>>)
  /\ skills = {}
  /\ riskiest = <<>>
  /\ AggregatesIdle
  /\ tab = "browse"
  /\ clicked = NoClick
  /\ CarouselIdle

\* setModal(row.skill_path), the findings button of a displayed row with
\* findings > 0; FindingsModal renders and computes its groups.
OpenModal(path) ==
  /\ modal = NoModal
  /\ ~groups.raised
  /\ LET paged == Paged(sorted, page)
     IN \E i \in 1..Len(paged) :
          paged[i].skill_path = path /\ paged[i].findings > 0
  /\ modal' = path
  /\ groups' \in GroupOutcomes(FindingsOf(findingsBySkill, path))
  /\ UNCHANGED <<browseVars, findingsBySkill, loadAll, sqlVars,
                 appVars, carouselVars>>

\* onClose: setModal(null)
CloseModal ==
  /\ modal # NoModal
  /\ ~groups.raised
  /\ modal' = NoModal
  /\ groups' = Sorted(<<>>)
  /\ UNCHANGED <<browseVars, findingsBySkill, loadAll, sqlVars,
                 appVars, carouselVars>>

NextFindings ==
  \/ \E path \in {ModalPath} : OpenModal(path)
  \/ CloseModal

SpecFindings == InitFindings /\ [][NextFindings]_vars

----------------------------------------------------------------------------
(* BrowseSection: filters, sort, pages and the findings modal together      *)

\* data.findingsBySkill next to the long catalogs: findings for two skills
\* of the first page.
BigFindings ==
  (BigRow(1).skill_path :>
     << Finding(<<69, 88>>, "CRITICAL", 3), Finding(<<80, 73>>, "HIGH", 1),
        Finding(<<80, 73>>, "HIGH", 2) >>)
  @@ (BigRow(4).skill_path :> << Finding(<<65, 66>>, "HIGH", 4) >>)

InitView ==
  /\ LoadReady
  /\ browseSkills = BigCatalog((MaxPages - 1) * PER_PAGE + 1)
  /\ authorFilter = <<>>
  /\ query = authorFilter
  /\ catFilter = <<>>
  /\ riskFilter = ""
  /\ sortKey = "date_added"
  /\ sortDir = "desc"
  /\ page = 0
  /\ filtered = Filtered(browseSkills, query, catFilter, riskFilter)
  /\ sorted \in SortOutcomes(filtered, sortKey, sortDir)
  /\ resorted = <<>>
  /\ pageBefore = 0
  /\ findingsBySkill = BigFindings
  /\ modal = NoModal
  /\ groups = Sorted(<<>>)
  /\ skills = {}
  /\ riskiest = <<>>
  /\ AggregatesIdle
  /\ tab = "browse"
  /\ clicked = NoClick
  /\ CarouselIdle

NextView ==
  \/ \E text \in {<<>>, <<65>>} : SetQuery(text)
  \/ \E c \in CatList \cup {<<>>} : SetCatFilter(c)
  \/ \E r \in {"", "CRITICAL"} : SetRiskFilter(r)
  \/ \E key \in {"level"} : HandleSort(key)
  \/ ResetFilters
  \/ PageFirst
  \/ PagePrev
  \/ PageNext
  \/ PageLast
  \/ \E path \in DOMAIN BigFindings : OpenModal(path)
  \/ CloseModal

SpecView == InitView /\ [][NextView]_vars

----------------------------------------------------------------------------
(* App: tabs and the author filter handed to BrowseSection                  *)

\* The ids of the tabs of Header.
Tabs == {"overview", "security", "authors", "browse"}

\* The authors AuthorsSection offers to click.
AuthorClicks == {<<65, 108>>, <<66, 111>>}

\* BrowseSection mounts: the state hooks take their initial values, query
\* from the authorFilter prop, and the effect on [authorFilter] sets query
\* and page once more.
MountBrowse ==
  /\ query' = authorFilter'
  /\ catFilter' = <<>>
  /\ riskFilter' = ""
  /\ sortKey' = "date_added"
  /\ sortDir' = "desc"
  /\ page' = 0
  /\ pageBefore' = 0
  /\ Render

\* BrowseSection unmounts: its state is dropped.
UnmountBrowse ==
  /\ query' = <<>>
  /\ catFilter' = <<>>
  /\ riskFilter' = ""
  /\ sortKey' = "date_added"
  /\ sortDir' = "desc"
  /\ page' = 0
  /\ pageBefore' = 0
  /\ filtered' = <<>>
  /\ sorted' = <<>>
  /\ resorted' = <<>>

browseState ==
  <<query, catFilter, riskFilter, sortKey, sortDir, page, pageBefore,
    filtered, sorted, resorted>>

\* The dashboard is rendered with no section mounted but the overview.
InitApp ==
  /\ LoadReady
  /\ browseSkills \in Catalogs
  /\ authorFilter = <<>>
  /\ query = <<>>
  /\ catFilter = <<>>
  /\ riskFilter = ""
  /\ sortKey = "date_added"
  /\ sortDir = "desc"
  /\ page = 0
  /\ pageBefore = 0
  /\ filtered = <<>>
  /\ sorted = <<>>
  /\ resorted = <<>>
  /\ findingsBySkill = <<>>
  /\ modal = NoModal
  /\ groups = [raised |-> FALSE, list |-> <<>>]
  /\ skills = {}
  /\ riskiest = <<>>
  /\ AggregatesIdle
  /\ tab = "overview"
  /\ clicked = NoClick
  /\ CarouselIdle

\* Mutant: the click sets the filter and leaves the tab.
HandleAuthorClick_keepsTab(author) ==
  /\ Screen = "dashboard"
  /\ tab = "authors"
  /\ authorFilter' = author
  /\ clicked' = author
  /\ UNCHANGED <<tab, browseState>>
  /\ UNCHANGED <<browseSkills, loadAll, modalVars, sqlVars, carouselVars>>

\* handleAuthorClick(author), offered by AuthorsSection:
\* setAuthorFilter(author); setTab("browse")
HandleAuthorClick(author) ==
  /\ Screen = "dashboard"
  /\ tab = "authors"
  /\ authorFilter' = author
  /\ tab' = "browse"
  /\ clicked' = author
  /\ UNCHANGED <<browseSkills, loadAll, modalVars, sqlVars, carouselVars>>
  /\ MountBrowse

\* handleTabChange(t), a tab button of Header:
\* if (t !== "browse") setAuthorFilter(""); setTab(t)
HandleTabChange(t) ==
  /\ Screen = "dashboard"
  /\ authorFilter' = (IF t # "browse" THEN <<>> ELSE authorFilter)
  /\ tab' = t
  /\ clicked' = NoClick
  /\ UNCHANGED <<browseSkills, loadAll, modalVars, sqlVars, carouselVars>>
  /\ IF t = "browse" /\ tab # "browse" THEN MountBrowse
     ELSE IF t # "browse" /\ tab = "browse" THEN UnmountBrowse
     ELSE UNCHANGED browseState

\* The section's own handlers are reachable while it is mounted.
NextApp ==
  \/ \E a \in AuthorClicks : HandleAuthorClick(a)
  \/ \E t \in Tabs : HandleTabChange(t)
  \/ tab = "browse" /\ \E text \in {<<>>, <<47>>} : SetQuery(text)
  \/ tab = "browse" /\ \E key \in {"level", "date_added"} : HandleSort(key)
  \/ tab = "browse" /\ ResetFilters

SpecApp == InitApp /\ [][NextApp]_vars

----------------------------------------------------------------------------
(* useSkillsData: the riskiest query                                        *)

\* Largest number of rows of the skills relation explored.
MaxSkills == 3

\* Rows of the skills relation (the columns the query reads).
Skill(path, level, count, deleted) ==
  [skill_path |-> path, scan_risk_level |-> level,
   scan_findings_count |-> count, is_deleted |-> deleted]

SkillPool ==
  { Skill(<<97>>, "CRITICAL", 2, FALSE),
    Skill(<<98>>, "HIGH", 5, FALSE),
    Skill(<<99>>, "HIGH", 1, FALSE),
    Skill(<<100>>, "CLEAN", 0, FALSE),
    Skill(<<101>>, "UNKNOWN", 0, FALSE),
    Skill(<<102>>, "HIGH", 9, TRUE),
    Skill(<<103>>, "LOW", 1, FALSE) }

Relations == {rel \in SUBSET SkillPool : Cardinality(rel) <= MaxSkills}

\* WHERE scan_risk_level IN (...) AND NOT is_deleted
RiskiestWhere(r) ==
  /\ r.scan_risk_level \in {"CRITICAL", "HIGH", "MEDIUM", "LOW", "CLEAN"}
  /\ ~r.is_deleted

\* CASE scan_risk_level WHEN ... END
RiskiestCase(level) ==
  IF level = "CRITICAL" THEN 0
  ELSE IF level = "HIGH" THEN 1
  ELSE IF level = "MEDIUM" THEN 2
  ELSE IF level = "LOW" THEN 3
  ELSE 4

\* ORDER BY CASE ... END, scan_findings_count DESC: a may precede b.
RiskiestOrder(a, b) ==
  \/ RiskiestCase(a.scan_risk_level) < RiskiestCase(b.scan_risk_level)
  \/ /\ RiskiestCase(a.scan_risk_level) = RiskiestCase(b.scan_risk_level)
     /\ a.scan_findings_count >= b.scan_findings_count

RISKIEST_LIMIT == 50

\* SELECT skill_path, ..., scan_risk_level AS level, scan_findings_count AS
\* findings
RiskiestSelect(r) ==
  [skill_path |-> r.skill_path, level |-> r.scan_risk_level,
   findings |-> r.scan_findings_count]

\* The orders in which the rows of a set can be listed.
Listings(set) ==
  {p \in [1..Cardinality(set) -> set] :
     \A i \in 1..Cardinality(set), j \in 1..Cardinality(set) : i # j => p[i] # p[j]}

\* The results the query can return: the qualifying rows in an order that
\* satisfies ORDER BY (rows equal on both keys in any order), cut at LIMIT.
RiskiestQuery(rel) ==
  LET pass == {r \in rel : RiskiestWhere(r)}
      orders == {p \in Listings(pass) :
                   \A i \in 1..Len(p), j \in 1..Len(p) :
                     i < j => RiskiestOrder(p[i], p[j])}
  IN {[k \in 1..Min(RISKIEST_LIMIT, Len(p)) |-> RiskiestSelect(p[k])] : p \in orders}

\* The queries have been issued over a registered skills relation.
InitRiskiest ==
  /\ data = Null
  /\ loading = TRUE
  /\ error = Null
  /\ progress = Str("Running analytics...")
  /\ cancelled = FALSE
  /\ pc = "gather"
  /\ fetches = [n \in BlobNames |->
                  IF n \in Mandatory THEN Response(TRUE, "parquet") ELSE FetchRejected]
  /\ registered = {"skills", "findings"}
  /\ authorProfiles = "{}"
  /\ qs = [i \in Queries |-> "pending"]
  /\ setDataCalls = 0
  /\ setErrorCalls = 0
  /\ cancelledAt = "never"
  /\ failedAt = "none"
  /\ BrowseIdle
  /\ skills \in Relations
  /\ riskiest = <<>>
  /\ AggregatesIdle
  /\ tab = "overview"
  /\ clicked = NoClick
  /\ CarouselIdle

\* The position of the riskiest query among the ten.
RiskiestIndex == CHOOSE i \in Queries : QueryField[i] = "riskiest"

\* The riskiest query resolves with its rows.
RiskiestResolve ==
  /\ pc = "gather"
  /\ qs[RiskiestIndex] = "pending"
  /\ qs' = [qs EXCEPT ![RiskiestIndex] = "ok"]
  /\ riskiest' \in RiskiestQuery(skills)
  /\ UNCHANGED <<hookVars, cancelled, pc, fetches, registered, authorProfiles, histVars,
                 browseVars, modalVars, skills, findings, findingsBySev,
                 findingsByRule, allFindings, appVars, carouselVars>>

NextRiskiest == RiskiestResolve

SpecRiskiest == InitRiskiest /\ [][NextRiskiest]_vars

----------------------------------------------------------------------------
(* useSkillsData: the three queries over the findings relation              *)

\* Largest number of rows of the findings relation explored.
MaxFindingRows == 3

\* Rows of the findings relation (the columns the queries read).
FindingRow(path, rule, sev, cat, line) ==
  [skill_path |-> path, rule_id |-> rule, severity |-> sev,
   finding_category |-> cat, line |-> line]

\* Findings of the skills of SkillPool: two of skill a and one of skill b
\* (both listed), one of skill f (deleted), one of a path no skill has, and
\* one without a path.
FindingRowPool ==
  { FindingRow(<<97>>, <<80, 73>>, "HIGH", "injection", 1),
    FindingRow(<<97>>, <<69, 88>>, "CRITICAL", "exfiltration", 2),
    FindingRow(<<98>>, <<80, 73>>, "HIGH", "injection", 1),
    FindingRow(<<102>>, <<69, 88>>, "CRITICAL", "exfiltration", 3),
    FindingRow(<<122>>, <<83, 67>>, "LOW", "supply-chain", 4),
    FindingRow(NullStr, <<80, 73>>, "HIGH", "injection", 5) }

FindingRelations ==
  {rel \in SUBSET FindingRowPool : Cardinality(rel) <= MaxFindingRows}

\* SELECT col, COUNT(*) AS cnt FROM findings GROUP BY 1: one row per value of
\* the column, counting every row of the relation that has it.
CountBy(rel, col) ==
  {[name |-> v, cnt |-> Cardinality({f \in rel : f[col] = v})] :
     v \in {f[col] : f \in rel}}

\* ... ORDER BY cnt DESC: the groups in an order of descending count, groups
\* of equal count in any order.
CountQuery(rel, col) ==
  {p \in Listings(CountBy(rel, col)) :
     \A i \in 1..Len(p), j \in 1..Len(p) : i < j => p[i].cnt >= p[j].cnt}

\* SELECT severity, COUNT(*) AS cnt FROM findings GROUP BY 1 ORDER BY cnt DESC
\* followed by findingsBySev.map(r => ({name: r.severity, cnt: Number(r.cnt)}))
FindingsBySevQuery(rel) == CountQuery(rel, "severity")

\* SELECT finding_category AS category, COUNT(*) AS cnt FROM findings GROUP BY
\* 1 ORDER BY cnt DESC followed by findingsByRule.map(...)
FindingsByRuleQuery(rel) == CountQuery(rel, "finding_category")

\* SELECT skill_path, rule_id, severity, finding_category AS rule_cat, line
AllFindingsSelect(f) ==
  [skill_path |-> f.skill_path, rule_id |-> f.rule_id, severity |-> f.severity,
   rule_cat |-> f.finding_category, line |-> f.line]

\* ORDER BY skill_path, CASE severity ... END, line: a may precede b.  Where
\* the rows without a path go depends on the engine's default null order.
AllFindingsOrder(a, b, nullsFirst) ==
  IF a.skill_path # b.skill_path
    THEN IF a.skill_path = NullStr THEN nullsFirst
         ELSE IF b.skill_path = NullStr THEN ~nullsFirst
         ELSE StrLess(a.skill_path, b.skill_path)
  ELSE \/ SqlSeverityRank(a.severity) < SqlSeverityRank(b.severity)
       \/ /\ SqlSeverityRank(a.severity) = SqlSeverityRank(b.severity)
          /\ a.line <= b.line

\* The results the allFindings query can return.
AllFindingsQuery(rel) ==
  {[k \in 1..Len(p) |-> AllFindingsSelect(p[k])] :
     p \in {l \in Listings(rel) :
              \E nullsFirst \in BOOLEAN :
                \A i \in 1..Len(l), j \in 1..Len(l) :
                  i < j => AllFindingsOrder(l[i], l[j], nullsFirst)}}

\* Mutant: the reducer replaces the list of a key instead of extending it.
BySkillStep_overwrite(acc, r) ==
  LET k == ToKey(r.skill_path)
  IN [x \in DOMAIN acc \cup {k} |-> IF x = k THEN <<r>> ELSE acc[x]]

\* The reducer: if (!acc[r.skill_path]) acc[r.skill_path] = [];
\* acc[r.skill_path].push(r); return acc.  The path is used as a property
\* key.
BySkillStep(acc, r) ==
  LET k == ToKey(r.skill_path)
      list == IF k \in DOMAIN acc THEN acc[k] ELSE <<>>
  IN [x \in DOMAIN acc \cup {k} |-> IF x = k THEN Append(list, r) ELSE acc[x]]

\* allFindings.reduce(reducer, {})
RECURSIVE FindingsBySkill(_)
FindingsBySkill(rows) ==
  IF rows = <<>> THEN <<>>
  ELSE BySkillStep(FindingsBySkill(SubSeq(rows, 1, Len(rows) - 1)), rows[Len(rows)])

\* The positions of the three queries among the ten.
BySevIndex == CHOOSE i \in Queries : QueryField[i] = "findingsBySev"
ByRuleIndex == CHOOSE i \in Queries : QueryField[i] = "findingsByRule"
BySkillIndex == CHOOSE i \in Queries : QueryField[i] = "findingsBySkill"
FindingsQueries == {BySevIndex, ByRuleIndex, BySkillIndex}

\* Both relations are registered, the ten queries have been issued and the
\* seven that do not read the findings relation have resolved.
InitAggregates ==
  /\ data = Null
  /\ loading = TRUE
  /\ error = Null
  /\ progress = Str("Running analytics...")
  /\ cancelled = FALSE
  /\ pc = "gather"
  /\ fetches = [n \in BlobNames |->
                  IF n \in Mandatory THEN Response(TRUE, "parquet") ELSE FetchRejected]
  /\ registered = {"skills", "findings"}
  /\ authorProfiles = "{}"
  /\ qs = [i \in Queries |-> IF i \in FindingsQueries THEN "pending" ELSE "ok"]
  /\ setDataCalls = 0
  /\ setErrorCalls = 0
  /\ cancelledAt = "never"
  /\ failedAt = "none"
  /\ BrowseIdle
  /\ skills \in Relations
  /\ riskiest = <<>>
  /\ findings \in FindingRelations
  /\ findingsBySev = <<>>
  /\ findingsByRule = <<>>
  /\ allFindings = <<>>
  /\ tab = "overview"
  /\ clicked = NoClick
  /\ CarouselIdle

\* The continuation of load() after the gather: if (cancelled) return;
\* setData({...}); setLoading(false).  It runs when the last query resolves.
AfterGather ==
  IF GatherFulfilled(qs')
    THEN IF cancelled
           THEN /\ pc' = "done"
                /\ UNCHANGED <<data, loading, setDataCalls, findingsBySkill>>
           ELSE /\ data' = [ViewModel(qs', authorProfiles) EXCEPT
                              !.findingsBySev = findingsBySev',
                              !.findingsByRule = findingsByRule',
                              !.findingsBySkill = FindingsBySkill(allFindings')]
                /\ findingsBySkill' = FindingsBySkill(allFindings')
                /\ setDataCalls' = setDataCalls + 1
                /\ loading' = FALSE
                /\ pc' = "done"
    ELSE UNCHANGED <<data, loading, setDataCalls, pc, findingsBySkill>>

aggregatesKeeps ==
  <<error, progress, cancelled, fetches, registered, authorProfiles, setErrorCalls,
    cancelledAt, failedAt, browseVars, modal, groups, skills, riskiest,
    findings, appVars, carouselVars>>

\* The findings-by-severity query resolves with its rows.
FindingsBySevResolve ==
  /\ pc = "gather"
  /\ qs[BySevIndex] = "pending"
  /\ qs' = [qs EXCEPT ![BySevIndex] = "ok"]
  /\ findingsBySev' \in FindingsBySevQuery(findings)
  /\ UNCHANGED <<findingsByRule, allFindings>>
  /\ AfterGather
  /\ UNCHANGED aggregatesKeeps

\* The findings-by-category query resolves with its rows.
FindingsByRuleResolve ==
  /\ pc = "gather"
  /\ qs[ByRuleIndex] = "pending"
  /\ qs' = [qs EXCEPT ![ByRuleIndex] = "ok"]
  /\ findingsByRule' \in FindingsByRuleQuery(findings)
  /\ UNCHANGED <<findingsBySev, allFindings>>
  /\ AfterGather
  /\ UNCHANGED aggregatesKeeps

\* The allFindings query resolves with its rows.
AllFindingsResolve ==
  /\ pc = "gather"
  /\ qs[BySkillIndex] = "pending"
  /\ qs' = [qs EXCEPT ![BySkillIndex] = "ok"]
  /\ allFindings' \in AllFindingsQuery(findings)
  /\ UNCHANGED <<findingsBySev, findingsByRule>>
  /\ AfterGather
  /\ UNCHANGED aggregatesKeeps

NextAggregates ==
  \/ FindingsBySevResolve
  \/ FindingsByRuleResolve
  \/ AllFindingsResolve

SpecAggregates == InitAggregates /\ [][NextAggregates]_vars

----------------------------------------------------------------------------
(* SkillCardCarousel: pages of cards                                        *)

PAGE_SIZE == 20

\* Largest number of carousel pages explored.
MaxCarouselPages == 3

\* The skills prop: a list of n cards.
Cards(n) == [i \in 1..n |-> i]

\* Lists the parent passes: none, one card, a full page, a page and a short
\* one, and the longest list of MaxCarouselPages pages with a single card on
\* the last.
CardLists ==
  {Cards(n) : n \in {0, 1, PAGE_SIZE, PAGE_SIZE + 5,
                     (MaxCarouselPages - 1) * PAGE_SIZE + 1}}

\* Math.ceil(skills.length / PAGE_SIZE)
CarouselTotalPages(list) == (Len(list) + PAGE_SIZE - 1) \div PAGE_SIZE

\* skills.slice(carouselPage * PAGE_SIZE, (carouselPage + 1) * PAGE_SIZE)
PageItems(list, p) ==
  SubSeq(list, Min(p * PAGE_SIZE, Len(list)) + 1, Min((p + 1) * PAGE_SIZE, Len(list)))

\* carouselPage * PAGE_SIZE + selectedIndex
GlobalIndex == carouselPage * PAGE_SIZE + selectedIndex

\* The component has mounted with some list; the carousel engine is not yet
\* attached.
InitCarousel ==
  /\ LoadReady
  /\ BrowseIdle
  /\ skills = {}
  /\ riskiest = <<>>
  /\ AggregatesIdle
  /\ tab = "browse"
  /\ clicked = NoClick
  /\ carouselSkills \in CardLists
  /\ carouselPage = 0
  /\ selectedIndex = 0
  /\ emblaApi = FALSE
  /\ snap = 0
  /\ effects = {}

carouselKeeps == <<loadAll, browseVars, modalVars, sqlVars, appVars>>

\* useEmblaCarousel hands out the engine once the viewport is in the
\* document; the render it causes schedules the effects that depend on
\* emblaApi.
EmblaReady ==
  /\ effects = {}
  /\ ~emblaApi
  /\ Len(carouselSkills) > 0
  /\ emblaApi' = TRUE
  /\ effects' = {"select", "page"}
  /\ UNCHANGED <<carouselSkills, carouselPage, selectedIndex, snap>>
  /\ UNCHANGED carouselKeeps

\* The parent renders the carousel with another list: the component renders
\* with the state it has, and the effect on [skills] is scheduled.
SkillsChange(list) ==
  /\ effects = {}
  /\ list # carouselSkills
  /\ carouselSkills' = list
  /\ effects' = {"skills"}
  /\ UNCHANGED <<carouselPage, selectedIndex, emblaApi, snap>>
  /\ UNCHANGED carouselKeeps

\* goToPage(p): setCarouselPage(Math.max(0, Math.min(totalPages - 1, p))).
\* The render with the new page schedules the effect on [emblaApi,
\* carouselPage].
GoToPage(p) ==
  /\ effects = {}
  /\ carouselPage' = Max(0, Min(CarouselTotalPages(carouselSkills) - 1, p))
  /\ carouselPage' # carouselPage
  /\ effects' = {"page"}
  /\ UNCHANGED <<carouselSkills, selectedIndex, emblaApi, snap>>
  /\ UNCHANGED carouselKeeps

\* The page row, rendered when the list is not empty and has more than one
\* page: "Prev 20" is disabled on page 0.
PrevPage ==
  /\ Len(carouselSkills) > 0
  /\ CarouselTotalPages(carouselSkills) > 1
  /\ carouselPage # 0
  /\ GoToPage(carouselPage - 1)

\* "Next 20" is disabled when carouselPage >= totalPages - 1.
NextPage ==
  /\ Len(carouselSkills) > 0
  /\ CarouselTotalPages(carouselSkills) > 1
  /\ ~(carouselPage >= CarouselTotalPages(carouselSkills) - 1)
  /\ GoToPage(carouselPage + 1)

\* The engine selects card i of the page (swipe, card buttons, dots):
\* onSelect sets selectedIndex to emblaApi.selectedScrollSnap().
Select(i) ==
  /\ effects = {}
  /\ emblaApi
  /\ i \in 0..(Len(PageItems(carouselSkills, carouselPage)) - 1)
  /\ i # snap
  /\ snap' = i
  /\ selectedIndex' = i
  /\ UNCHANGED <<carouselSkills, carouselPage, emblaApi, effects>>
  /\ UNCHANGED carouselKeeps

\* The scheduled effects run, in the order of their declaration, and their
\* state updates are rendered together: onSelect() for a new engine; the
\* reset to page 0 and card 0 for a new list; reInit, scrollTo(0) and card 0
\* for a new page or engine (nothing while there is no engine).  A page
\* changed by the reset schedules the page effect again.
RunEffects ==
  /\ effects # {}
  /\ LET rewinds == "page" \in effects /\ emblaApi
     IN /\ carouselPage' = (IF "skills" \in effects THEN 0 ELSE carouselPage)
        /\ snap' = (IF rewinds THEN 0 ELSE snap)
        /\ selectedIndex' =
             (IF "skills" \in effects \/ rewinds THEN 0
              ELSE IF "select" \in effects THEN snap
              ELSE selectedIndex)
  /\ effects' = (IF carouselPage' # carouselPage THEN {"page"} ELSE {})
  /\ UNCHANGED <<carouselSkills, emblaApi>>
  /\ UNCHANGED carouselKeeps

NextCarousel ==
  \/ EmblaReady
  \/ \E list \in CardLists : SkillsChange(list)
  \/ PrevPage
  \/ NextPage
  \/ \E i \in 0..(PAGE_SIZE - 1) : Select(i)
  \/ RunEffects

SpecCarousel == InitCarousel /\ [][NextCarousel]_vars

----------------------------------------------------------------------------
(* Properties of the ingestion pipeline                                     *)

ViewModelFields ==
  {"stats", "authorProfiles", "monthly", "categories", "riskLevels", "authors",
   "riskiest", "findingsBySev", "findingsByRule", "browseSkills",
   "findingsBySkill"}

\* d holds every field, each query field carrying the resolved result of its
\* own query.
Complete(d) ==
  /\ DOMAIN d = ViewModelFields
  /\ d.authorProfiles \in {"{}", "profiles"}
  /\ \A i \in Queries : d[QueryField[i]] = [query |-> i, st |-> "ok"]

\* The run was not torn down before load() returned.
RanToEnd == ~cancelled \/ cancelledAt = "done"

\* The awaits whose failure is a failure of engine start-up or of a mandatory
\* blob or relation.
MandatorySteps == {"init", "fetchSkills", "fetchFindings", "insertSkills", "insertFindings"}


\* The authors blob is absent: its fetch rejected or answered non-OK.
AuthorsAbsent ==
  \/ fetches["authors"].st = "rejected"
  \/ fetches["authors"].st = "resp" /\ ~fetches["authors"].ok

\* C1: data is always either null or the complete view-model built from all
\* ten resolved queries, and setData is called at most once per run.
C1_AtomicPublish ==
  /\ data = Null \/ Complete(data)
  /\ setDataCalls <= 1
  /\ (data # Null) <=> (setDataCalls = 1)

C1_Witness == data # Null /\ setDataCalls = 1 /\ pc = "done"

\* C2: once the flag has been raised between the loading of the relations
\* and the completion of the gather, no later step calls setData or setError.
C2_CancelSilent ==
  [][(cancelledAt \in {"queryAuthors", "gather"}) =>
       (/\ setDataCalls' = setDataCalls
        /\ setErrorCalls' = setErrorCalls
        /\ data' = data /\ data = Null
        /\ error' = error /\ error = Null)]_vars

C2_Witness ==
  /\ cancelledAt = "gather"
  /\ pc = "done"
  /\ failedAt = "gather"
  /\ \E i \in Queries : qs[i] = "ok"

\* Some query of the gather has rejected.
AnyQueryFailed == \E i \in Queries : qs[i] = "failed"

\* C3 as stated: a failed query always leaves the hook with error set,
\* loading false and no view-model.
C3_Original ==
  AnyQueryFailed =>
    /\ error # Null
    /\ loading = FALSE
    /\ data = Null
    /\ setDataCalls = 0

\* C3 amended: a failed query never lets setData be called, and unless the
\* run was cancelled before the rejection was handled the hook ends with
\* error set and loading false.
C3_QueryFailureFailsAll ==
  AnyQueryFailed =>
    /\ data = Null
    /\ setDataCalls = 0
    /\ RanToEnd => (pc = "done" /\ error # Null /\ loading = FALSE)
    /\ ~RanToEnd => (error = Null /\ loading = TRUE)

C3_Witness ==
  /\ AnyQueryFailed
  /\ Cardinality({i \in Queries : qs[i] = "ok"}) = NumQueries - 1
  /\ error # Null
  /\ ~loading

\* C4: when the authors blob is absent and nothing else fails in a run that
\* is not torn down, the view-model is published with an empty profile map
\* and error stays null; the absence itself never makes a step fail.
C4_AuthorsAbsentOk ==
  (AuthorsAbsent /\ pc = "done" /\ RanToEnd /\ failedAt \notin MandatorySteps \cup {"gather"}) =>
    /\ failedAt = "none"
    /\ data # Null
    /\ data.authorProfiles = "{}"
    /\ error = Null

C4_Witness ==
  /\ fetches["authors"].st = "resp" /\ ~fetches["authors"].ok
  /\ data # Null
  /\ data.authorProfiles = "{}"

\* C5 as stated: no failure of the optional author-profiles relation
\* propagates; the view-model is still published and error stays null.
C5_Claim ==
  (pc = "done" /\ RanToEnd /\ failedAt \notin MandatorySteps \cup {"gather"}) =>
    /\ data # Null
    /\ error = Null

\* A mandatory fetch that rejected or answered non-OK, or a failed engine
\* start-up or mandatory registration.
MandatoryFailure ==
  \/ failedAt \in MandatorySteps
  \/ \E n \in Mandatory : fetches[n].st = "resp" /\ ~fetches[n].ok

\* C6 as stated: a run that is not cancelled and meets a mandatory failure
\* ends with a non-empty error message, loading false and no view-model.
C6_Claim ==
  (MandatoryFailure /\ pc = "done" /\ RanToEnd) =>
    /\ error # Null
    /\ error.text # ""
    /\ loading = FALSE
    /\ data = Null

\* The phase of the session as the consumer sees it.
Phase ==
  IF loading /\ data = Null /\ error = Null THEN "loading"
  ELSE IF ~loading /\ data # Null /\ error = Null THEN "ready"
  ELSE IF ~loading /\ data = Null /\ error # Null THEN "failed"
  ELSE "other"

\* C7: the session is always loading, ready or failed; ready and failed are
\* terminal, loading never becomes true again, and published data never
\* changes.
C7_Lifecycle ==
  [][(/\ Phase # "other" /\ Phase' # "other"
      /\ (~loading => ~loading')
      /\ (Phase = "ready" => Phase' = "ready" /\ data' = data)
      /\ (Phase = "failed" => Phase' = "failed" /\ error' = error))]_vars

C7_Witness == Phase = "ready" /\ cancelled

----------------------------------------------------------------------------
(* Properties of the browse filter and sort                                 *)

Rows(list) == {list[i] : i \in 1..Len(list)}

\* The position of row r in a list of distinct rows.
IndexOf(list, r) == CHOOSE i \in 1..Len(list) : list[i] = r

SearchFields == {"skill_path", "skill_author", "skill_display_name", "skill_description"}

\* (a) the search text is empty or, lower-cased, occurs in a lower-cased
\* search field, a missing field counting as the empty string.
MatchesSearch(r) ==
  \/ query = <<>>
  \/ \E f \in SearchFields :
       Includes(ToLowerCase(IF r[f] = NullStr THEN <<>> ELSE r[f]), ToLowerCase(query))

\* C8: a row is in the filtered list iff it matches the search text, the
\* category filter is unset or equal to its category, and the risk filter is
\* unset or equal to its level; with no filter set nothing is dropped.
C8_FilterConjunction ==
  /\ \A r \in Rows(browseSkills) :
       (r \in Rows(filtered)) <=>
         /\ MatchesSearch(r)
         /\ (catFilter = <<>> \/ r.category = catFilter)
         /\ (riskFilter = "" \/ r.level = riskFilter)
  /\ Rows(filtered) \subseteq Rows(browseSkills)
  /\ Len(filtered) = Cardinality(Rows(filtered))
  /\ (query = <<>> /\ catFilter = <<>> /\ riskFilter = "") =>
       Len(filtered) = Len(browseSkills)

C8_Witness ==
  /\ query = <<65>>
  /\ catFilter # <<>>
  /\ Len(filtered) = 2
  /\ Len(browseSkills) = 3

\* Rows a and b have equal derived sort values under the current key.
Tie(a, b) == ~Greater(a, b, sortKey) /\ ~Greater(b, a, sortKey)

\* C9 as stated: rows with equal sort values keep, in sorted, the relative
\* order they have in filtered.
C9_Claim ==
  \A i \in 1..Len(filtered), j \in 1..Len(filtered) :
    (i < j /\ Tie(filtered[i], filtered[j])) =>
      IndexOf(sorted, filtered[i]) < IndexOf(sorted, filtered[j])

\* C10 as stated: sorting the sorted result again with the same key and
\* direction returns the same sequence.
C10_Claim == (resorted # <<>>) => (resorted = sorted)

----------------------------------------------------------------------------
(* Properties of pagination                                                 *)

\* C11: in every reachable state of BrowseSection, whatever searches,
\* category and risk choices, author clicks, resets, sort clicks and page
\* button clicks led to it, 0 <= page <= max(0, totalPages - 1), so the
\* displayed slice is non-empty whenever the sorted list is non-empty.
C11_PageInRange ==
  /\ 0 <= page
  /\ page <= Max(0, TotalPages(sorted) - 1)
  /\ (sorted # <<>> => Paged(sorted, page) # <<>>)

\* The last page of a list of more than two pages, reached by ">>" from
\* page 0.
C11_Witness ==
  /\ page > 1
  /\ pageBefore = 0
  /\ page = TotalPages(sorted) - 1
  /\ Len(Paged(sorted, page)) = 1

\* The slices of pages 0 .. n-1, one after the other.
RECURSIVE PagesUpTo(_, _)
PagesUpTo(list, n) ==
  IF n = 0 THEN <<>> ELSE PagesUpTo(list, n - 1) \o Paged(list, n - 1)

\* C12: for the filtered and sorted list, the slices of pages
\* 0 .. totalPages-1 (PER_PAGE rows each, totalPages = ceil(length / PER_PAGE))
\* concatenated are that list: every row once, in order.
C12_SlicesCover ==
  /\ PagesUpTo(sorted, TotalPages(sorted)) = sorted
  /\ \A p \in 0..(TotalPages(sorted) - 1) :
        /\ Paged(sorted, p) # <<>>
        /\ Len(Paged(sorted, p)) <= PER_PAGE

\* A list of more than two pages whose last page is not full.
C12_Witness ==
  /\ TotalPages(sorted) > 2
  /\ Len(Paged(sorted, TotalPages(sorted) - 1)) < PER_PAGE
  /\ Len(Paged(sorted, 0)) = PER_PAGE

\* C13: every step that changes the filter predicate (the search text, the
\* category, the risk level, a clicked author, a reset, a new authorFilter
\* prop) leaves the page index at 0.
C13_FilterChangeResetsPage ==
  [][ (\/ query' # query
       \/ catFilter' # catFilter
       \/ riskFilter' # riskFilter
       \/ authorFilter' # authorFilter) => page' = 0 ]_vars

\* A filter change made on a later page: the list now fits on one page, and
\* the page index, which was not 0, is 0.
C13_Witness ==
  /\ pageBefore > 0
  /\ page = 0
  /\ TotalPages(sorted) = 1
  /\ catFilter # <<>>

----------------------------------------------------------------------------
(* Properties of the findings modal                                         *)

\* The findings handed to the open modal.
Shown == FindingsOf(findingsBySkill, modal)

\* The rule ids of the findings shown; a missing id counts as one value.
RuleIds == {Shown[i].rule_id : i \in 1..Len(Shown)}

\* The number of groups whose hit list holds finding f.
GroupsHolding(f) ==
  Cardinality({k \in 1..Len(groups.list) :
                 \E h \in 1..Len(groups.list[k].hits) : groups.list[k].hits[h] = f})

RECURSIVE HitsUpTo(_)
HitsUpTo(k) == IF k = 0 THEN 0 ELSE HitsUpTo(k - 1) + Len(groups.list[k].hits)

\* The groups partition the findings shown by rule id.
PartitionByRule ==
  /\ Len(groups.list) = Cardinality(RuleIds)
  /\ \A i \in 1..Len(Shown) : GroupsHolding(Shown[i]) = 1
  /\ HitsUpTo(Len(groups.list)) = Len(Shown)

\* C14: grouping partitions the findings by rule id: N findings with K
\* distinct rule ids give exactly K groups, every finding is in exactly one
\* hit list, and the hit lists' lengths sum to N.
C14_Claim == (modal # NoModal) => (~groups.raised /\ PartitionByRule)

\* The rank of a severity in the fixed order.
SeverityRank(sev) ==
  IF sev = "CRITICAL" THEN 0
  ELSE IF sev = "HIGH" THEN 1
  ELSE IF sev = "MEDIUM" THEN 2
  ELSE IF sev = "LOW" THEN 3
  ELSE 4

\* The groups are in non-decreasing severity rank and, within a rank, in
\* ascending rule id.
OrderedBySeverityThenRule ==
  \A i \in 1..Len(groups.list), j \in 1..Len(groups.list) :
    i < j =>
      LET a == groups.list[i]
          b == groups.list[j]
      IN \/ SeverityRank(a.severity) < SeverityRank(b.severity)
         \/ /\ SeverityRank(a.severity) = SeverityRank(b.severity)
            /\ StrLess(OrEmpty(a.rule_id), OrEmpty(b.rule_id))

\* C15: the groups are ordered by severity rank in the fixed order CRITICAL,
\* HIGH, MEDIUM, LOW, INFO, and groups of equal rank by rule id ascending.
C15_Claim == (modal # NoModal) => (~groups.raised /\ OrderedBySeverityThenRule)

\* C16: a finding without a rule id does not make grouping fail: it is put
\* in a group keyed by the empty string, and grouping and sorting complete
\* without raising for every list of findings.
C16_Claim ==
  (modal # NoModal) =>
    /\ ~groups.raised
    /\ \A i \in 1..Len(Shown) :
         Shown[i].rule_id = NullStr =>
           \E k \in 1..Len(groups.list) :
             /\ groups.list[k].rule_id = <<>>
             /\ \E h \in 1..Len(groups.list[k].hits) : groups.list[k].hits[h] = Shown[i]

\* Every finding shown has a rule id.
AllIdentified == \A i \in 1..Len(Shown) : Shown[i].rule_id # NullStr

\* On findings that all have a rule id the grouping does not raise,
\* partitions by rule id and is ordered.
GroupingOfIdentified ==
  (modal # NoModal /\ AllIdentified) =>
    (~groups.raised /\ PartitionByRule /\ OrderedBySeverityThenRule)

\* Whenever the grouping does not raise it partitions by rule id.
GroupingWhenCompleted ==
  (modal # NoModal /\ ~groups.raised) => PartitionByRule

----------------------------------------------------------------------------
(* Properties of the riskiest query                                         *)

\* The row of the skills relation a listed entry was selected from.
SkillOf(e) == CHOOSE r \in skills : r.skill_path = e.skill_path

\* C17: the risk-ranked top list holds at most 50 entries, all of them
\* non-deleted and none with level CLEAN or UNKNOWN, ordered by severity
\* rank (CRITICAL < HIGH < MEDIUM < LOW) and then by findings count
\* descending.
C17_Claim ==
  /\ Len(riskiest) <= 50
  /\ \A k \in 1..Len(riskiest) :
       /\ ~SkillOf(riskiest[k]).is_deleted
       /\ riskiest[k].level \notin {"CLEAN", "UNKNOWN"}
  /\ \A i \in 1..Len(riskiest), j \in 1..Len(riskiest) :
       i < j =>
         \/ RISK_ORDER(riskiest[i].level) < RISK_ORDER(riskiest[j].level)
         \/ /\ riskiest[i].level = riskiest[j].level
            /\ riskiest[i].findings >= riskiest[j].findings

\* The list apart from the CLEAN entries: non-deleted, no UNKNOWN, ordered.
RiskiestApartFromClean ==
  /\ Len(riskiest) <= 50
  /\ \A k \in 1..Len(riskiest) :
       /\ ~SkillOf(riskiest[k]).is_deleted
       /\ riskiest[k].level # "UNKNOWN"
  /\ \A i \in 1..Len(riskiest), j \in 1..Len(riskiest) :
       i < j =>
         \/ RISK_ORDER(riskiest[i].level) < RISK_ORDER(riskiest[j].level)
         \/ /\ riskiest[i].level = riskiest[j].level
            /\ riskiest[i].findings >= riskiest[j].findings

----------------------------------------------------------------------------
(* Properties of the section as a reader of the view-model                  *)

\* C18: no filter, sort or page operation and no opening of the findings
\* modal changes the view-model: data.browseSkills keeps its rows in their
\* order and data.findingsBySkill is unchanged.
C18_ViewModelUntouched ==
  [][ /\ browseSkills' = browseSkills
      /\ findingsBySkill' = findingsBySkill
      /\ data' = data ]_vars

\* The findings modal open on a later page of a list sorted by level.
C18_Witness ==
  /\ modal # NoModal
  /\ groups.list # <<>>
  /\ page > 0
  /\ sortKey = "level"
  /\ sorted # browseSkills

----------------------------------------------------------------------------
(* Properties of the sort by date and by level                              *)

\* The date texts that are dates.
IsDate(d) == d \in {"2024-01-01", "2024-01-02"}

\* The epoch value the date sort is to use: 0 for an absent or unparseable
\* date.
EpochOrZero(r) == IF IsDate(r.date_added) THEN GetTime(r.date_added) ELSE 0

\* C19: when sorting by the date key, a row whose date is absent or is
\* present but unparseable is compared as epoch 0, like any other such row:
\* the sorted list is in the order of these epoch values and does not depend
\* on a non-comparable value.
C19_Claim ==
  (sortKey = "date_added") =>
    \A i \in 1..Len(sorted), j \in 1..Len(sorted) :
      i < j =>
        IF sortDir = "asc"
          THEN EpochOrZero(sorted[i]) <= EpochOrZero(sorted[j])
          ELSE EpochOrZero(sorted[i]) >= EpochOrZero(sorted[j])

\* The date sort of lists without an unparseable date is in epoch order.
DateSortOfParseable ==
  (/\ sortKey = "date_added"
   /\ \A i \in 1..Len(sorted) :
        sorted[i].date_added = NullDate \/ IsDate(sorted[i].date_added)) =>
    \A i \in 1..Len(sorted), j \in 1..Len(sorted) :
      i < j =>
        IF sortDir = "asc"
          THEN EpochOrZero(sorted[i]) <= EpochOrZero(sorted[j])
          ELSE EpochOrZero(sorted[i]) >= EpochOrZero(sorted[j])

\* The levels of the rank table.
Recognised(level) ==
  level \in {"CRITICAL", "HIGH", "MEDIUM", "LOW", "CLEAN", "UNKNOWN"}

\* CRITICAL < HIGH < MEDIUM < LOW < CLEAN < UNKNOWN < any other level.
LevelRank(level) ==
  IF level = "CRITICAL" THEN 1
  ELSE IF level = "HIGH" THEN 2
  ELSE IF level = "MEDIUM" THEN 3
  ELSE IF level = "LOW" THEN 4
  ELSE IF level = "CLEAN" THEN 5
  ELSE IF level = "UNKNOWN" THEN 6
  ELSE 7

\* The sorted list follows the rank table in the direction of the sort, as
\* far as the recognised levels go.
RecognisedInTableOrder ==
  \A i \in 1..Len(sorted), j \in 1..Len(sorted) :
    (i < j /\ Recognised(sorted[i].level) /\ Recognised(sorted[j].level)) =>
      IF sortDir = "asc"
        THEN LevelRank(sorted[i].level) <= LevelRank(sorted[j].level)
        ELSE LevelRank(sorted[i].level) >= LevelRank(sorted[j].level)

\* C20 as stated: sorting by level follows the rank table, and a row whose
\* level is not in the table is placed after every row with a recognised
\* level.
C20_Original ==
  (sortKey = "level") =>
    /\ RecognisedInTableOrder
    /\ \A i \in 1..Len(sorted), j \in 1..Len(sorted) :
         i < j => ~(~Recognised(sorted[i].level) /\ Recognised(sorted[j].level))

\* C20: sorting by level compares by the rank table CRITICAL < HIGH < MEDIUM
\* < LOW < CLEAN < UNKNOWN with every level outside the table ranked above
\* UNKNOWN: ascending, such a row comes after every row with a recognised
\* level; descending, before every one.
C20_LevelOrder ==
  (sortKey = "level") =>
    \A i \in 1..Len(sorted), j \in 1..Len(sorted) :
      i < j =>
        IF sortDir = "asc"
          THEN LevelRank(sorted[i].level) <= LevelRank(sorted[j].level)
          ELSE LevelRank(sorted[i].level) >= LevelRank(sorted[j].level)

\* A descending sort by level that shows a row without a recognised level
\* first, in front of rows with one.
C20_Witness ==
  /\ sortKey = "level"
  /\ sortDir = "desc"
  /\ Len(sorted) = MaxEntries
  /\ ~Recognised(sorted[1].level)
  /\ \A i \in 2..Len(sorted) : Recognised(sorted[i].level)
  /\ sorted[2].level # sorted[3].level

----------------------------------------------------------------------------
(* Properties of the published findings aggregates                          *)

\* The catalog entry a finding refers to exists and is not deleted.
Scoped(f) ==
  \E sk \in skills : sk.skill_path = f.skill_path /\ ~sk.is_deleted

\* Every count of list is the number of scoped findings with that value.
CountsScoped(list, col) ==
  \A i \in 1..Len(list) :
    list[i].cnt = Cardinality({f \in findings : f[col] = list[i].name /\ Scoped(f)})

\* C21 as stated: a finding whose skill_path names a deleted or non-existent
\* catalog entry is counted neither in findingsBySev nor in findingsByRule
\* and its path is not a key of findingsBySkill.
C21_Claim ==
  (data # Null) =>
    /\ CountsScoped(data.findingsBySev, "severity")
    /\ CountsScoped(data.findingsByRule, "finding_category")
    /\ \A k \in DOMAIN data.findingsBySkill :
         \E sk \in skills : ~sk.is_deleted /\ ToKey(sk.skill_path) = k

\* What the code publishes instead: every row of the findings relation is
\* counted and every path of it is a key, whatever the skills relation holds.
AggregatesOverAllFindings ==
  (data # Null) =>
    /\ \A i \in 1..Len(data.findingsBySev) :
         data.findingsBySev[i].cnt =
           Cardinality({f \in findings : f.severity = data.findingsBySev[i].name})
    /\ \A i \in 1..Len(data.findingsByRule) :
         data.findingsByRule[i].cnt =
           Cardinality({f \in findings : f.finding_category = data.findingsByRule[i].name})
    /\ DOMAIN data.findingsBySkill = {ToKey(f.skill_path) : f \in findings}

\* The lengths of the lists under the keys of a map, summed.
RECURSIVE LengthSum(_, _)
LengthSum(by, keys) ==
  IF keys = {} THEN 0
  ELSE LET k == CHOOSE x \in keys : TRUE
       IN Len(by[k]) + LengthSum(by, keys \ {k})

\* The number of places of a list that hold r.
Occurrences(list, r) == Cardinality({j \in 1..Len(list) : list[j] = r})

\* C30: findingsBySkill partitions the rows of the findings query: each row
\* is in exactly one list, once, the list under its own skill_path (as a
\* property key); each list keeps the order of the query result; the lengths
\* sum to the number of rows.
C30_BySkillPartition ==
  (data # Null) =>
    LET by == data.findingsBySkill IN
    /\ \A i \in 1..Len(allFindings) :
         LET r == allFindings[i] IN
         /\ ToKey(r.skill_path) \in DOMAIN by
         /\ \A k \in DOMAIN by :
              Occurrences(by[k], r) = (IF k = ToKey(r.skill_path) THEN 1 ELSE 0)
    /\ \A k \in DOMAIN by :
         by[k] = SelectSeq(allFindings, LAMBDA r : ToKey(r.skill_path) = k)
    /\ LengthSum(by, DOMAIN by) = Len(allFindings)

C30_Witness ==
  /\ data # Null
  /\ Len(allFindings) = 3
  /\ Cardinality(DOMAIN data.findingsBySkill) = 2
  /\ \E k \in DOMAIN data.findingsBySkill : Len(data.findingsBySkill[k]) = 2

----------------------------------------------------------------------------
(* Properties of the cancellation flag and of the order of the pipeline     *)

\* The step starts a fetch or a query that had not been issued.
StartsRequest ==
  \/ \E n \in BlobNames : fetches[n].st = "idle" /\ fetches'[n].st # "idle"
  \/ \E i \in Queries : qs[i] = "idle" /\ qs'[i] # "idle"

\* The step moves load() on to a further await instead of returning.
Proceeds == pc' \notin {pc, "done"}

\* C22 as stated: once the flag is raised, every later resolution inside
\* load() is a no-op: no state update, no further fetch, relation
\* registration or query.
C22_Claim ==
  [][cancelled =>
       (/\ data' = data /\ error' = error /\ loading' = loading
        /\ progress' = progress
        /\ ~StartsRequest
        /\ ~Proceeds)]_vars

\* What the three checks of the code do guarantee: a cancelled run never
\* changes data, error or loading, and issues no aggregation query.
CancelledRunPublishesNothing ==
  [][cancelled =>
       (/\ data' = data /\ error' = error /\ loading' = loading
        /\ setDataCalls' = setDataCalls /\ setErrorCalls' = setErrorCalls
        /\ \A i \in Queries : qs[i] = "idle" => qs'[i] = "idle")]_vars

\* C23: a consumer never sees data while an aggregation query is unresolved:
\* data is non-null only when all ten queries have resolved, the dashboard is
\* rendered only then, and while loading is true only the loading screen is.
C23_PublishAfterAll ==
  /\ (data # Null) => \A i \in Queries : qs[i] = "ok"
  /\ (Screen = "dashboard") => (data # Null /\ \A i \in Queries : qs[i] = "ok")
  /\ loading => Screen = "LoadingScreen"

C23_Witness ==
  /\ Screen = "dashboard"
  /\ \A i \in Queries : qs[i] = "ok"
  /\ authorProfiles = "profiles"

\* C24: the ten queries are issued together, so that none has settled while
\* another is not yet issued, and the published view-model carries under
\* each field the result of that field's own query whatever the order of the
\* resolutions.
C24_FireAndGather ==
  /\ (\E i \in Queries : qs[i] # "idle") => (\A j \in Queries : qs[j] # "idle")
  /\ (data # Null) => data = ViewModel([i \in Queries |-> "ok"], authorProfiles)

\* The last query of the array has resolved while the first is in flight.
C24_Witness ==
  /\ pc = "gather"
  /\ qs[NumQueries] = "ok"
  /\ qs[1] = "pending"

\* The relations load() has to register before the gather.
RelationsDue ==
  Mandatory \cup (IF AuthorsBuf(fetches["authors"]) # "null" THEN {"author_profiles"} ELSE {})

QueriesIssued == \E i \in Queries : qs[i] # "idle"

\* C25: once an aggregation query has been issued every relation is
\* registered and no registration is in flight, and from then on (while
\* queries are in flight and after the publish) no relation is registered or
\* replaced.
C25_RelationsReadOnly ==
  [][(/\ QueriesIssued' =>
           /\ RelationsDue \subseteq registered'
           /\ pc' \in {"gather", "done"}
      /\ QueriesIssued => registered' = registered
      /\ (data # Null) => registered' = registered)]_vars

C25_Witness ==
  /\ registered = {"skills", "findings", "author_profiles"}
  /\ \E i \in Queries : qs[i] = "pending"
  /\ \E i \in Queries : qs[i] = "ok"

\* C26: data and error are never both non-null, when loading is false
\* exactly one of them is non-null, and App never renders its blank branch.
C26_DataErrorExclusive ==
  /\ ~(data # Null /\ error # Null)
  /\ ~loading => ((data # Null) # (error # Null))
  /\ Screen # "null"

C26_Witness ==
  /\ ~loading
  /\ error # Null
  /\ data = Null
  /\ failedAt = "insertAuthors"

----------------------------------------------------------------------------
(* Properties of App                                                        *)

\* C27: whenever tab is not "browse" the author filter is the empty string,
\* and a click on an author ends with tab "browse" and the author filter
\* equal to that author.
C27_AuthorFilterOnlyOnBrowse ==
  /\ (tab # "browse") => authorFilter = <<>>
  /\ (clicked # NoClick) => (tab = "browse" /\ authorFilter = clicked)

\* An author was clicked and the section it opened has been used since.
C27_Witness ==
  /\ clicked = <<66, 111>>
  /\ authorFilter = <<66, 111>>
  /\ tab = "browse"
  /\ query # authorFilter

----------------------------------------------------------------------------
(* Properties of the sort click                                             *)

\* The step is a sort click: only handleSort changes the key or the
\* direction, and every call of it changes one of them.
SortClicked == sortKey' # sortKey \/ sortDir' # sortDir

\* C28: the sort starts as date_added descending; a sort click on the active
\* key keeps the key and flips the direction between "asc" and "desc", a
\* click on another key makes it the key with direction "asc"; either way
\* the page becomes 0 and the search text, the category filter and the risk
\* filter stay as they are.
C28_SortClick ==
  /\ sortKey = "date_added" /\ sortDir = "desc"
  /\ [][SortClicked =>
          (/\ sortKey' = sortKey =>
                \/ sortDir = "asc" /\ sortDir' = "desc"
                \/ sortDir = "desc" /\ sortDir' = "asc"
           /\ sortKey' # sortKey => sortDir' = "asc"
           /\ page' = 0
           /\ query' = query
           /\ catFilter' = catFilter
           /\ riskFilter' = riskFilter)]_vars

\* The level column has been clicked twice, a search text is set, and the
\* last event took the section from a later page back to the first.
C28_Witness ==
  /\ sortKey = "level"
  /\ sortDir = "desc"
  /\ pageBefore > 0
  /\ page = 0
  /\ query # <<>>
  /\ Len(sorted) > PER_PAGE

----------------------------------------------------------------------------
(* Properties of the carousel                                               *)

\* The page and the global counter index are within the list.
CarouselInRange ==
  /\ carouselPage \in 0..(CarouselTotalPages(carouselSkills) - 1)
  /\ GlobalIndex < Len(carouselSkills)

\* C29 as stated: whenever the list is not empty, every rendered state has
\* carouselPage within [0, totalPages - 1] and the global counter index
\* below skills.length.
C29_Claim == (Len(carouselSkills) > 0) => CarouselInRange

\* What the effects do guarantee: the renders after which no effect is left
\* to run are in range.
CarouselSettledInRange ==
  (Len(carouselSkills) > 0 /\ effects = {}) => CarouselInRange

====
